---- MODULE Spec2Model ----
(***************************************************************************)
(* Model of package gledki (src/gledki.go): a templates manager on top of  *)
(* fasttemplate.  A template text is a sequence of tokens: literal text,   *)
(* a line break, or a tag `${...}`.  A tag is a plain placeholder, a       *)
(* `${wrapper FILE}` directive or an `${include FILE}` directive.  A path  *)
(* is a record: the root directories it is prefixed with, the base name    *)
(* and whether it carries the extension Ext.                               *)
(***************************************************************************)
EXTENDS Naturals, Sequences, FiniteSets, TLC

VARIABLES
    Roots,          \* Gledki.Roots: ordered root directories
    IncludeLimit,   \* Gledki.IncludeLimit
    CacheTemplates, \* package variable CacheTemplates
    Stash,          \* Gledki.Stash
    files,          \* Gledki.files: full path -> raw content
    compiled,       \* Gledki.compiled: full path -> flattened text
    wg,             \* Gledki.wg: counter of the wait group
    disk,           \* template files on disk: full path -> content
    art,            \* compiled artifacts on disk, keyed by the source path
    pending,        \* storeCompiled goroutines that have not finished
    pc,             \* position of the caller inside Execute
    cur,            \* Execute's local variables (name, path, text, err)
    out,            \* the io.Writer handed to the running/last Execute
    last            \* observation of the last finished call

vars == <<Roots, IncludeLimit, CacheTemplates, Stash, files, compiled, wg,
          disk, art, pending, pc, cur, out, last>>

---------------------------------------------------------------------------
(* Bounds *)

NRoots == 2        \* number of root directories on disk
MaxLimit == 2      \* IncludeLimit ranges over 1..MaxLimit (and the default)
MaxPending == 2    \* cap on storeCompiled goroutines in flight
MaxChain == 4      \* longest chain of files including one another
MaxLevel == 12     \* cap on the count kept by a counting TagFunc

DefaultIncludeLimit == 3

---------------------------------------------------------------------------
(* Tokens, texts, paths *)

Lit(c) == [k |-> "lit", v |-> c]
NL == [k |-> "nl", v |-> ""]
Ph(n) == [k |-> "ph", v |-> n]
Wrapper(f) == [k |-> "wrap", v |-> f]
Include(f) == [k |-> "inc", v |-> f]

IsTag(tok) == tok.k \in {"ph", "wrap", "inc"}
IsInclude(tok) == tok.k = "inc"
IsWrapper(tok) == tok.k = "wrap"

\* a logical name without root and without extension
Rel(n) == [pre |-> <<>>, base |-> n, ext |-> FALSE]
\* the file n.Ext directly under root r
FP(r, n) == [pre |-> <<r>>, base |-> n, ext |-> TRUE]
NoPath == [pre |-> <<>>, base |-> "", ext |-> FALSE]

EmptyMap == [x \in {} |-> <<>>]
Put(f, key, val) == [x \in (DOMAIN f) \cup {key} |-> IF x = key THEN val ELSE f[x]]

Ev(e, p) == [e |-> e, p |-> p]

---------------------------------------------------------------------------
(* strings / path helpers used by the code *)

TrimSuffixNL(t) ==
    IF Len(t) > 0 /\ t[Len(t)].k = "nl" THEN SubSeq(t, 1, Len(t) - 1) ELSE t

HasSuffixExt(path) == path.ext
HasPrefix(path, root) == Len(path.pre) > 0 /\ path.pre[1] = root
Join(root, path) == [path EXCEPT !.pre = <<root>> \o path.pre]

\* the content of a file that exists and cannot be opened for reading
NoRead == <<[k |-> "noread", v |-> ""]>>

isReadable(d, path) == path \in DOMAIN d /\ d[path] # NoRead

\* the loop of toFullPath over t.Roots[i..]
RECURSIVE toFullPathFrom(_, _, _, _)
toFullPathFrom(d, roots, path, i) ==
    IF i > Len(roots) THEN path
    ELSE LET foundPath == IF HasPrefix(path, roots[i]) THEN path
                          ELSE Join(roots[i], path)
         IN IF isReadable(d, foundPath) THEN foundPath
            ELSE toFullPathFrom(d, roots, path, i + 1)

toFullPathLastRoot(d, roots, path0) ==
    LET path == IF HasSuffixExt(path0) THEN path0 ELSE [path0 EXCEPT !.ext = TRUE]
        hits == {i \in 1..Len(roots) :
                    isReadable(d, IF HasPrefix(path, roots[i]) THEN path
                                  ELSE Join(roots[i], path))}
    IN IF hits = {} THEN path
       ELSE LET i == CHOOSE j \in hits : \A h \in hits : h <= j
            IN IF HasPrefix(path, roots[i]) THEN path ELSE Join(roots[i], path)

\* does not append the extension
toFullPathAsGiven(d, roots, path0) == toFullPathFrom(d, roots, path0, 1)

toFullPath(d, roots, path0) ==
    LET path == IF HasSuffixExt(path0) THEN path0 ELSE [path0 EXCEPT !.ext = TRUE]
    IN toFullPathFrom(d, roots, path, 1)

---------------------------------------------------------------------------
(* fasttemplate in non-strict mode: tags found in data are replaced by     *)
(* their value, all other tags are kept verbatim.                          *)

RECURSIVE FtExecStringStdStrict(_, _)
FtExecStringStdStrict(template, data) ==
    IF template = <<>> THEN <<>>
    ELSE LET tok == Head(template)
         IN (IF ~IsTag(tok) THEN <<tok>>
             ELSE IF tok \in DOMAIN data THEN data[tok] ELSE <<>>)
            \o FtExecStringStdStrict(Tail(template), data)

RECURSIVE FtExecStringStd(_, _)
FtExecStringStd(template, data) ==
    IF template = <<>> THEN <<>>
    ELSE LET tok == Head(template)
         IN (IF IsTag(tok) /\ tok \in DOMAIN data THEN data[tok] ELSE <<tok>>)
            \o FtExecStringStd(Tail(template), data)

---------------------------------------------------------------------------
(* The instance as seen inside one call.  s is a record holding the fields  *)
(* of *Gledki the call reads or writes (files, compiled, wg, stash, roots,  *)
(* limit), the package variable (cache), the file system (disk, art), the   *)
(* goroutines started (pending) and the I/O done by the call (log).         *)

Res(s, text, res) == [s |-> s, text |-> text, res |-> res]
Logged(s, e, p) == [s EXCEPT !.log = @ \cup {Ev(e, p)}]

\* a local variable of the code: x := v; body(x)
Let(v, body(_)) == CHOOSE y \in {body(x) : x \in {v}} : TRUE

\* os.ReadFile(path) and lines 267-271 of LoadFile
\* a failed read of a path that has already failed in this call is logged as
\* a retry
readFile(s, path) ==
    IF ~isReadable(s.disk, path)
    THEN Res(Logged(s, IF Ev("ReadFileFailed", path) \in s.log
                       THEN "ReadFileRetried" ELSE "ReadFileFailed", path),
             <<>>, "err")
    ELSE Res([Logged(s, "ReadFile", path) EXCEPT
                 !.files = Put(s.files, path, s.disk[path])],
             s.disk[path], "ok")

LoadFileNoMemo(s, path0) == readFile(s, toFullPath(s.disk, s.roots, path0))

\* answers from t.files whenever the path has an entry, empty or not
LoadFileMemoEmpty(s, path0) ==
    Let(toFullPath(s.disk, s.roots, path0), LAMBDA path :
        IF path \in DOMAIN s.files
        THEN Res(s, s.files[path], "ok")
        ELSE readFile(s, path))

\* reads a second time when the first read fails
LoadFileRetry(s, path0) ==
    Let(toFullPath(s.disk, s.roots, path0), LAMBDA path :
        IF path \in DOMAIN s.files /\ Len(s.files[path]) > 0
        THEN Res(s, s.files[path], "ok")
        ELSE Let(readFile(s, path), LAMBDA r :
                 IF r.res = "ok" THEN r ELSE readFile(r.s, path)))

\* a LoadFile that remembers where it found the file by moving that root
\* to the front of t.Roots
MoveToFront(roots, r) ==
    IF \E i \in DOMAIN roots : roots[i] = r
    THEN <<r>> \o SelectSeq(roots, LAMBDA x : x # r)
    ELSE roots

LoadFileMoveToFront(s, path0) ==
    Let(toFullPath(s.disk, s.roots, path0), LAMBDA path :
    Let([s EXCEPT !.roots = IF Len(path.pre) > 0
                            THEN MoveToFront(s.roots, path.pre[1])
                            ELSE s.roots], LAMBDA t :
        IF path \in DOMAIN t.files /\ Len(t.files[path]) > 0
        THEN Res(t, t.files[path], "ok")
        ELSE readFile(t, path)))

LoadFile(s, path0) ==
    Let(toFullPath(s.disk, s.roots, path0), LAMBDA path :
        IF path \in DOMAIN s.files /\ Len(s.files[path]) > 0
        THEN Res(s, s.files[path], "ok")
        ELSE readFile(s, path))

\* index of the first wrapper directive of text, 0 if there is none
FirstWrapper(text) ==
    IF \E i \in 1..Len(text) : IsWrapper(text[i])
    THEN CHOOSE i \in 1..Len(text) :
            IsWrapper(text[i]) /\ \A j \in 1..(i - 1) : ~IsWrapper(text[j])
    ELSE 0

\* strings.Replace(text, match[1], "", 1): match[1] is the directive and
\* the line break that directly follows it, if any
RemoveMatch(text, i) ==
    LET n == IF i < Len(text) /\ text[i + 1].k = "nl" THEN 2 ELSE 1
    IN SubSeq(text, 1, i - 1) \o SubSeq(text, i + n, Len(text))

ContentData(text) == [x \in {Ph("content")} |-> text]

\* index of the last wrapper directive of text, 0 if there is none
LastWrapper(text) ==
    IF \E i \in 1..Len(text) : IsWrapper(text[i])
    THEN CHOOSE i \in 1..Len(text) :
            IsWrapper(text[i]) /\ \A j \in (i + 1)..Len(text) : ~IsWrapper(text[j])
    ELSE 0

\* honours the last wrapper directive instead of the first
wrapLastDirective(s, text0) ==
    Let(TrimSuffixNL(text0), LAMBDA text :
    Let(LastWrapper(text), LAMBDA i :
        IF i = 0 THEN Res(s, text, "ok")
        ELSE Let(LoadFile(s, Rel(text[i].v)), LAMBDA lf :
            IF lf.res # "ok" THEN Res(lf.s, <<>>, "err")
            ELSE Res(lf.s, FtExecStringStd(TrimSuffixNL(lf.text),
                                           ContentData(RemoveMatch(text, i))), "ok"))))

RECURSIVE wrapLevels(_, _, _)
\* wraps, and then wraps the result again while levels are left: the wrapper
\* directive of a wrapper file is honoured too
wrapLevels(s, text0, levels) ==
    Let(TrimSuffixNL(text0), LAMBDA text :
    Let(FirstWrapper(text), LAMBDA i :
        IF i = 0 \/ levels = 0 THEN Res(s, text, "ok")
        ELSE Let(LoadFile(s, Rel(text[i].v)), LAMBDA lf :
            IF lf.res # "ok" THEN Res(lf.s, <<>>, "err")
            ELSE wrapLevels(lf.s, FtExecStringStd(TrimSuffixNL(lf.text),
                                      ContentData(RemoveMatch(text, i))),
                            levels - 1))))

wrapTwoLevels(s, text0) == wrapLevels(s, text0, 2)

wrapKeepDirective(s, text0) ==
    Let(TrimSuffixNL(text0), LAMBDA text :
    Let(FirstWrapper(text), LAMBDA i :
        IF i = 0 THEN Res(s, text, "ok")
        ELSE Let(LoadFile(s, Rel(text[i].v)), LAMBDA lf :
            IF lf.res # "ok" THEN Res(lf.s, <<>>, "err")
            ELSE Res(lf.s, FtExecStringStd(TrimSuffixNL(lf.text),
                                           ContentData(text)), "ok"))))

wrap(s, text0) ==
    Let(TrimSuffixNL(text0), LAMBDA text :
    Let(FirstWrapper(text), LAMBDA i :
        IF i = 0 THEN Res(s, text, "ok")
        ELSE Let(LoadFile(s, Rel(text[i].v)), LAMBDA lf :
            IF lf.res # "ok" THEN Res(lf.s, <<>>, "err")
            ELSE Res(lf.s, FtExecStringStd(TrimSuffixNL(lf.text),
                                           ContentData(RemoveMatch(text, i))), "ok"))))

\* stack is the call stack below detectInludeRecursionLimit, innermost
\* first; runtime.Caller(n) is stack[n], nil beyond the outermost frame
Caller(stack, n) == IF n <= Len(stack) THEN stack[n] ELSE "nil"

detectInludeRecursionLimitOffByOne(limit, stack) ==
    Caller(stack, limit) # "nil" /\ Caller(stack, 1) = Caller(stack, limit)

\* without the comparison of the two function names
detectInludeRecursionLimitAnyFrame(limit, stack) ==
    Caller(stack, 1 + limit) # "nil"

\* looks twice as far down the stack
detectInludeRecursionLimitDoubled(limit, stack) ==
    Caller(stack, 1 + 2 * limit) # "nil" /\ Caller(stack, 1) = Caller(stack, 1 + 2 * limit)

detectInludeRecursionLimit(limit, stack) ==
    Caller(stack, 1 + limit) # "nil" /\ Caller(stack, 1) = Caller(stack, 1 + limit)

IRes(s, stash, res) == [s |-> s, stash |-> stash, res |-> res]

RECURSIVE include(_, _, _)
RECURSIVE includeMatches(_, _, _, _)

\* returns at the limit (the commented-out line 387) instead of panicking
includeMatchesReturn(s, matches, stash, stack) ==
    IF matches = <<>> THEN IRes(s, stash, "ok")
    ELSE IF detectInludeRecursionLimit(s.limit, stack) THEN IRes(s, stash, "ok")
    ELSE Let(LoadFile(s, Rel(Head(matches).v)), LAMBDA lf :
         IF lf.res # "ok" THEN IRes(lf.s, stash, "err")
         ELSE Let(wrap(lf.s, TrimSuffixNL(lf.text)), LAMBDA wr :
              IF wr.res # "ok" THEN IRes(wr.s, stash, "err")
              ELSE Let(include(wr.s, wr.text, <<"include">> \o stack), LAMBDA inc :
                   IF inc.res # "ok" THEN IRes(inc.s, stash, inc.res)
                   ELSE includeMatches(inc.s, Tail(matches),
                                       Put(stash, Head(matches), inc.text), stack))))

\* the loop `for _, m := range matches` of include; stash collects the
\* resolved content per directive
includeMatches(s, matches, stash, stack) ==
    IF matches = <<>> THEN IRes(s, stash, "ok")
    ELSE IF detectInludeRecursionLimit(s.limit, stack) THEN IRes(s, stash, "panic")
    ELSE Let(LoadFile(s, Rel(Head(matches).v)), LAMBDA lf :
         IF lf.res # "ok" THEN IRes(lf.s, stash, "err")
         ELSE Let(wrap(lf.s, TrimSuffixNL(lf.text)), LAMBDA wr :
              IF wr.res # "ok" THEN IRes(wr.s, stash, "err")
              ELSE Let(include(wr.s, wr.text, <<"include">> \o stack), LAMBDA inc :
                   IF inc.res # "ok" THEN IRes(inc.s, stash, inc.res)
                   ELSE includeMatches(inc.s, Tail(matches),
                                       Put(stash, Head(matches), inc.text), stack))))

includeFirstOnly(s, text, stack) ==
    Let(SelectSeq(text, IsInclude), LAMBDA matches :
        IF Len(matches) = 0 THEN Res(s, text, "ok")
        ELSE Let(includeMatches(s, <<Head(matches)>>, EmptyMap, stack), LAMBDA r :
             IF r.res # "ok" THEN Res(r.s, <<>>, r.res)
             ELSE Res(r.s, FtExecStringStd(text, r.stash), "ok")))

include(s, text, stack) ==
    Let(SelectSeq(text, IsInclude), LAMBDA matches :
        IF Len(matches) = 0 THEN Res(s, text, "ok")
        ELSE Let(includeMatches(s, matches, EmptyMap, stack), LAMBDA r :
             IF r.res # "ok" THEN Res(r.s, <<>>, r.res)
             ELSE Res(r.s, FtExecStringStd(text, r.stash), "ok")))

\* reads the artifact without looking into t.compiled first
loadCompiledDiskOnly(s, fullPath) ==
    IF fullPath \notin DOMAIN s.art
    THEN Res(Logged(s, "ReadArtifactFailed", fullPath), <<>>, "err")
    ELSE Res([Logged(s, "ReadArtifact", fullPath) EXCEPT
                 !.compiled = Put(s.compiled, fullPath, s.art[fullPath])],
             s.art[fullPath], "ok")

\* never looks for the artifact
loadCompiledMemoryOnly(s, fullPath) ==
    IF fullPath \in DOMAIN s.compiled THEN Res(s, s.compiled[fullPath], "ok")
    ELSE Res(s, <<>>, "err")

\* takes the artifact whenever there is one and keeps it in t.compiled
loadCompiledRefresh(s, fullPath) ==
    IF fullPath \in DOMAIN s.art
    THEN Res([Logged(s, "ReadArtifact", fullPath) EXCEPT
                 !.compiled = Put(s.compiled, fullPath, s.art[fullPath])],
             s.art[fullPath], "ok")
    ELSE IF fullPath \in DOMAIN s.compiled
    THEN Res(s, s.compiled[fullPath], "ok")
    ELSE Res(s, <<>>, "err")

loadCompiled(s, fullPath) ==
    IF fullPath \in DOMAIN s.compiled THEN Res(s, s.compiled[fullPath], "ok")
    ELSE IF fullPath \notin DOMAIN s.art
    THEN Res(Logged(s, "ReadArtifactFailed", fullPath), <<>>, "err")
    ELSE Res([Logged(s, "ReadArtifact", fullPath) EXCEPT
                 !.compiled = Put(s.compiled, fullPath, s.art[fullPath])],
             s.art[fullPath], "ok")

\* starts the goroutine without t.compiled[path] = text
cacheCompiledNoMemo(s, path, text) ==
    IF s.cache
    THEN [Logged(s, "go storeCompiled", path) EXCEPT
             !.wg = @ + 1,
             !.pending = Append(@, [path |-> path, text |-> text, phase |-> "go"])]
    ELSE s

\* caches the text with the placeholders of the Stash already filled in
cacheCompiledRendered(s, path, text) ==
    IF s.cache
    THEN Let(FtExecStringStd(text, [x \in DOMAIN s.stash |-> s.stash[x].text]),
             LAMBDA done :
         [Logged(s, "go storeCompiled", path) EXCEPT
             !.compiled = Put(s.compiled, path, done),
             !.wg = @ + 1,
             !.pending = Append(@, [path |-> path, text |-> done, phase |-> "go"])])
    ELSE s

\* lines 174-178 of Compile: remember the text, start the goroutine
cacheCompiled(s, path, text) ==
    IF s.cache
    THEN [Logged(s, "go storeCompiled", path) EXCEPT
             !.compiled = Put(s.compiled, path, text),
             !.wg = @ + 1,
             !.pending = Append(@, [path |-> path, text |-> text, phase |-> "go"])]
    ELSE s

CRes(s, text, res, path) == [s |-> s, text |-> text, res |-> res, path |-> path]

\* runs the include pass over the file's own text, then the wrap pass
CompileIncludeFirst(s, path0, stack) ==
    Let(toFullPath(s.disk, s.roots, path0), LAMBDA path :
    Let(loadCompiled(s, path), LAMBDA lc :
        IF lc.res = "ok" THEN CRes(lc.s, lc.text, "ok", path)
        ELSE Let(LoadFile(lc.s, path), LAMBDA lf :
             IF lf.res # "ok" THEN CRes(lf.s, <<>>, "err", path)
             ELSE Let(include(Logged(lf.s, "include", path), lf.text,
                              <<"include", "Compile">> \o stack), LAMBDA inc :
                  IF inc.res # "ok"
                  THEN CRes(Logged(inc.s, inc.res, path), inc.text, inc.res, path)
                  ELSE Let(wrap(Logged(inc.s, "wrap", path), inc.text), LAMBDA wr :
                       IF wr.res # "ok" THEN CRes(wr.s, wr.text, "err", path)
                       ELSE CRes(cacheCompiled(wr.s, path, wr.text),
                                 wr.text, "ok", path))))))

\* remembers the wrapped text and starts the goroutine before the include pass
CompileCacheEarly(s, path0, stack) ==
    Let(toFullPath(s.disk, s.roots, path0), LAMBDA path :
    Let(loadCompiled(s, path), LAMBDA lc :
        IF lc.res = "ok" THEN CRes(lc.s, lc.text, "ok", path)
        ELSE Let(LoadFile(lc.s, path), LAMBDA lf :
             IF lf.res # "ok" THEN CRes(lf.s, <<>>, "err", path)
             ELSE Let(wrap(Logged(lf.s, "wrap", path), lf.text), LAMBDA wr :
                  IF wr.res # "ok" THEN CRes(wr.s, wr.text, "err", path)
                  ELSE Let(include(Logged(cacheCompiled(wr.s, path, wr.text), "include", path),
                                   wr.text, <<"include", "Compile">> \o stack), LAMBDA inc :
                       IF inc.res # "ok"
                       THEN CRes(Logged(inc.s, inc.res, path), inc.text, inc.res, path)
                       ELSE CRes([inc.s EXCEPT !.compiled = Put(@, path, inc.text)],
                                 inc.text, "ok", path))))))

Compile(s, path0, stack) ==
    Let(toFullPath(s.disk, s.roots, path0), LAMBDA path :
    Let(loadCompiled(s, path), LAMBDA lc :
        IF lc.res = "ok" THEN CRes(lc.s, lc.text, "ok", path)
        ELSE Let(LoadFile(lc.s, path), LAMBDA lf :
             IF lf.res # "ok" THEN CRes(lf.s, <<>>, "err", path)
             ELSE Let(wrap(Logged(lf.s, "wrap", path), lf.text), LAMBDA wr :
                  IF wr.res # "ok" THEN CRes(wr.s, wr.text, "err", path)
                  ELSE Let(include(Logged(wr.s, "include", path), wr.text,
                                   <<"include", "Compile">> \o stack), LAMBDA inc :
                       IF inc.res # "ok"
                       THEN CRes(Logged(inc.s, inc.res, path), inc.text, inc.res, path)
                       ELSE CRes(cacheCompiled(inc.s, path, inc.text),
                                 inc.text, "ok", path))))))

---------------------------------------------------------------------------
(* Rendering: fasttemplate.Execute in strict mode.  Text and the values of *)
(* known tags are written to the sink in order, unknown tags write nothing, *)
(* a TagFunc is called with the sink.                                       *)

StrVal(text) == [k |-> "str", text |-> text, f |-> ""]
\* a TagFunc that prepares a partial template with t.Compile(f) and writes it
CompileFunc(f) == [k |-> "Compile", text |-> <<>>, f |-> f]

TagFuncStack == <<"TagFunc", "stdTagFunc", "ExecuteFunc", "fasttemplate.Execute",
                  "Execute", "caller">>

\* a TagFunc that counts its calls and writes the count (gledki_test.go:262-266);
\* n is the closure's variable `level`
Counter(n) == [k |-> "Counter", text |-> <<>>, f |-> "", n |-> n]
\* a TagFunc that sets t.Stash[key] = val and writes text (README.md:56-61)
SetFunc(key, val, text) == [k |-> "Set", text |-> text, f |-> "", key |-> key, val |-> val]

Digit == <<"0", "1", "2", "3", "4", "5", "6", "7", "8", "9">>

RECURSIVE Itoa(_)
\* spf("%d", n)
Itoa(n) ==
    IF n < 10 THEN <<Lit(Digit[n + 1])>>
    ELSE Append(Itoa(n \div 10), Lit(Digit[(n % 10) + 1]))

\* the value is called as a TagFunc with the sink; the closure that counts is
\* one value under every key that holds it
runTagFunc(s, val) ==
    IF val.k = "Counter"
    THEN [s |-> [s EXCEPT !.stash = [x \in DOMAIN s.stash |->
                                       IF s.stash[x] = val THEN Counter(val.n + 1)
                                       ELSE s.stash[x]],
                          !.out = @ \o Itoa(val.n + 1)],
          res |-> "ok"]
    ELSE [s |-> [s EXCEPT !.stash = Put(s.stash, val.key, StrVal(val.val)),
                          !.out = @ \o val.text],
          res |-> "ok"]

\* the counting closure works on a copy of `level`
callTagFuncByValue(s, val) ==
    IF val.k = "Counter"
    THEN [s |-> [s EXCEPT !.out = @ \o Itoa(val.n + 1)], res |-> "ok"]
    ELSE IF val.k = "Set" THEN runTagFunc(s, val)
    ELSE Let(Compile(s, Rel(val.f), TagFuncStack), LAMBDA r :
        IF r.res # "ok" THEN [s |-> r.s, res |-> r.res]
        ELSE [s |-> [r.s EXCEPT !.out = @ \o r.text], res |-> "ok"])

callTagFunc(s, val) ==
    IF val.k \in {"Counter", "Set"} THEN runTagFunc(s, val)
    ELSE Let(Compile(s, Rel(val.f), TagFuncStack), LAMBDA r :
        IF r.res # "ok" THEN [s |-> r.s, res |-> r.res]
        ELSE [s |-> [r.s EXCEPT !.out = @ \o r.text], res |-> "ok"])

RECURSIVE ftExecData(_, _, _)
\* renders with the values found in data, whatever the TagFuncs do to t.Stash
ftExecData(s, template, data) ==
    IF template = <<>> THEN [s |-> s, res |-> "ok"]
    ELSE LET tok == Head(template)
         IN IF ~IsTag(tok)
            THEN ftExecData([s EXCEPT !.out = Append(@, tok)], Tail(template), data)
            ELSE IF tok \notin DOMAIN data
            THEN ftExecData(s, Tail(template), data)
            ELSE IF data[tok].k = "str"
            THEN ftExecData([s EXCEPT !.out = @ \o data[tok].text], Tail(template), data)
            ELSE Let(callTagFunc(s, data[tok]), LAMBDA r :
                     IF r.res # "ok" THEN r ELSE ftExecData(r.s, Tail(template), data))

\* fasttemplate.Execute given a copy of t.Stash made when Execute starts
ftExecSnapshot(s, template) == ftExecData(s, template, s.stash)

RECURSIVE ftExecKeepUnknown(_, _)
\* fasttemplate.ExecuteStd: tags that are not in the Stash are written as
\* they are
ftExecKeepUnknown(s, template) ==
    IF template = <<>> THEN [s |-> s, res |-> "ok"]
    ELSE LET tok == Head(template)
         IN IF ~IsTag(tok) \/ tok \notin DOMAIN s.stash
            THEN ftExecKeepUnknown([s EXCEPT !.out = Append(@, tok)], Tail(template))
            ELSE IF s.stash[tok].k = "str"
            THEN ftExecKeepUnknown([s EXCEPT !.out = @ \o s.stash[tok].text],
                                   Tail(template))
            ELSE Let(callTagFunc(s, s.stash[tok]), LAMBDA r :
                     IF r.res # "ok" THEN r ELSE ftExecKeepUnknown(r.s, Tail(template)))

RECURSIVE ftExec(_, _)
ftExec(s, template) ==
    IF template = <<>> THEN [s |-> s, res |-> "ok"]
    ELSE LET tok == Head(template)
         IN IF ~IsTag(tok)
            THEN ftExec([s EXCEPT !.out = Append(@, tok)], Tail(template))
            ELSE IF tok \notin DOMAIN s.stash
            THEN ftExec(s, Tail(template))
            ELSE IF s.stash[tok].k = "str"
            THEN ftExec([s EXCEPT !.out = @ \o s.stash[tok].text], Tail(template))
            ELSE Let(callTagFunc(s, s.stash[tok]), LAMBDA r :
                     IF r.res # "ok" THEN r ELSE ftExec(r.s, Tail(template)))

---------------------------------------------------------------------------
(* State machine *)

Self == [files |-> files, compiled |-> compiled, wg |-> wg, pending |-> pending,
         stash |-> Stash, out |-> out, disk |-> disk, art |-> art,
         roots |-> Roots, limit |-> IncludeLimit, cache |-> CacheTemplates,
         log |-> {}]

Commit(s) ==
    /\ files' = s.files
    /\ compiled' = s.compiled
    /\ wg' = s.wg
    /\ pending' = s.pending
    /\ Stash' = s.stash
    /\ out' = s.out
    /\ Roots' = s.roots
    /\ IncludeLimit' = s.limit
    /\ UNCHANGED <<CacheTemplates, disk, art>>

Idle == [name |-> NoPath, path |-> NoPath, text |-> <<>>, res |-> "", log |-> {}]

\* what the caller has seen of the last finished call: the call, its result,
\* the I/O it did (log), whether it passed t.wg.Wait() (waited), and the
\* call finished before it (prev)
Obs(op, name, path, res, text, log, waited) ==
    [op |-> op, name |-> name, path |-> path, res |-> res, text |-> text,
     log |-> log, cache |-> CacheTemplates, waited |-> waited, arg |-> <<>>,
     prev |-> <<last.op, last.name, last.res>>, tick |-> ~last.tick]

\* the caller invokes t.Compile(n)
CallCompile(n) ==
    /\ pc = "idle"
    /\ LET r == Compile(Self, Rel(n), <<"caller">>)
       IN /\ Len(r.s.pending) <= MaxPending
          /\ Commit(r.s)
          /\ last' = Obs("Compile", Rel(n), r.path, r.res, r.text, r.s.log, FALSE)
    /\ UNCHANGED <<pc, cur>>

\* the caller invokes t.LoadFile(n)
CallLoadFile(n) ==
    /\ pc = "idle"
    /\ LET r == LoadFile(Self, Rel(n))
       IN /\ Commit(r.s)
          /\ last' = Obs("LoadFile", Rel(n), toFullPath(disk, Roots, Rel(n)),
                         r.res, r.text, r.s.log, FALSE)
    /\ UNCHANGED <<pc, cur>>

\* the caller invokes t.Compile(path) with a path of any form
CallCompilePath(path) ==
    /\ pc = "idle"
    /\ LET r == Compile(Self, path, <<"caller">>)
       IN /\ Len(r.s.pending) <= MaxPending
          /\ Commit(r.s)
          /\ last' = Obs("Compile", path, r.path, r.res, r.text, r.s.log, FALSE)
    /\ UNCHANGED <<pc, cur>>

\* the caller invokes t.LoadFile(path) with a path of any form
CallLoadFilePath(path) ==
    /\ pc = "idle"
    /\ LET r == LoadFile(Self, path)
       IN /\ Commit(r.s)
          /\ last' = Obs("LoadFile", path, toFullPath(disk, Roots, path),
                         r.res, r.text, r.s.log, FALSE)
    /\ UNCHANGED <<pc, cur>>

\* the wrap pass applied to a text (wrap is private: called as Compile does)
CallWrap(text) ==
    /\ pc = "idle"
    /\ LET r == wrap(Self, text)
       IN /\ Commit(r.s)
          /\ last' = [Obs("wrap", NoPath, NoPath, r.res, r.text, r.s.log, FALSE)
                          EXCEPT !.arg = text, !.prev = <<"", NoPath, "">>,
                                 !.tick = FALSE]
    /\ UNCHANGED <<pc, cur>>

\* the include pass applied to a text (include is private: called as Compile
\* does, with Compile's frame below it)
CallInclude(text) ==
    /\ pc = "idle"
    /\ LET r == include(Self, text, <<"include", "Compile", "caller">>)
       IN /\ Commit(r.s)
          /\ last' = [Obs("include", NoPath, NoPath, r.res, r.text, r.s.log, FALSE)
                          EXCEPT !.arg = text, !.prev = <<"", NoPath, "">>,
                                 !.tick = FALSE]
    /\ UNCHANGED <<pc, cur>>

\* Execute, line 211-214: compile, return at once on error
ExecuteCompile(n) ==
    /\ pc = "idle"
    /\ LET r == Compile([Self EXCEPT !.out = <<>>], Rel(n), <<"Execute", "caller">>)
       IN /\ Len(r.s.pending) <= MaxPending
          /\ Commit(r.s)
          /\ IF r.res = "ok"
             THEN /\ pc' = "render"
                  /\ cur' = [name |-> Rel(n), path |-> r.path, text |-> r.text,
                             res |-> "ok", log |-> r.s.log]
                  /\ UNCHANGED last
             ELSE /\ last' = Obs("Execute", Rel(n), r.path, r.res, r.text, r.s.log, FALSE)
                  /\ UNCHANGED <<pc, cur>>

\* Execute, line 215: render the text with the Stash
ExecuteRender ==
    /\ pc = "render"
    /\ LET r == ftExec([Self EXCEPT !.log = cur.log], cur.text)
       IN /\ Len(r.s.pending) <= MaxPending
          /\ \A x \in DOMAIN r.s.stash :
                r.s.stash[x].k = "Counter" => r.s.stash[x].n <= MaxLevel
          /\ Commit(r.s)
          /\ IF r.res = "panic"
             THEN /\ pc' = "idle"
                  /\ cur' = Idle
                  /\ last' = Obs("Execute", cur.name, cur.path, "panic", cur.text, r.s.log, FALSE)
             ELSE /\ pc' = "wait"
                  /\ cur' = [cur EXCEPT !.res = r.res, !.log = r.s.log]
                  /\ UNCHANGED last

\* Execute, line 216-217: t.wg.Wait() lets the caller go on when the counter is 0
ExecuteReturn ==
    /\ pc = "wait"
    /\ wg = 0
    /\ pc' = "idle"
    /\ cur' = Idle
    /\ last' = Obs("Execute", cur.name, cur.path, cur.res, cur.text, cur.log, TRUE)
    /\ UNCHANGED <<Roots, IncludeLimit, CacheTemplates, Stash, files, compiled, wg,
                   disk, art, pending, out>>

RemoveAt(seq, i) == SubSeq(seq, 1, i - 1) \o SubSeq(seq, i + 1, Len(seq))

\* a directory in which no file can be created is on the disk as an entry of
\* its own
Dir(r) == [pre |-> <<r>>, base |-> "", ext |-> FALSE]
NoWrite == <<[k |-> "nowrite", v |-> ""]>>
Writable(d, path) == Dir(path.pre[1]) \notin DOMAIN d

\* goroutine storeCompiled: os.WriteFile creates or truncates the artifact ...
storeCompiledOpen(i) ==
    /\ i \in 1..Len(pending)
    /\ pending[i].phase = "go"
    /\ Writable(disk, pending[i].path)
    /\ pending' = [pending EXCEPT ![i].phase = "write"]
    /\ art' = Put(art, pending[i].path, <<>>)
    /\ UNCHANGED <<Roots, IncludeLimit, CacheTemplates, Stash, files, compiled, wg,
                   disk, pc, cur, out, last>>

\* t.wg.Done() before the text is on disk
storeCompiledDoneEarly(i) ==
    /\ i \in 1..Len(pending)
    /\ pending[i].phase = "write"
    /\ pending' = RemoveAt(pending, i)
    /\ wg' = wg - 1
    /\ UNCHANGED <<Roots, IncludeLimit, CacheTemplates, Stash, files, compiled,
                   disk, art, pc, cur, out, last>>

\* ... then writes the text; the deferred t.wg.Done() runs
storeCompiledDone(i) ==
    /\ i \in 1..Len(pending)
    /\ pending[i].phase = "write"
    /\ pending' = RemoveAt(pending, i)
    /\ art' = Put(art, pending[i].path, pending[i].text)
    /\ wg' = wg - 1
    /\ UNCHANGED <<Roots, IncludeLimit, CacheTemplates, Stash, files, compiled,
                   disk, pc, cur, out, last>>

\* os.WriteFile fails and the error is logged; the goroutine ends
storeCompiledSwallow(i) ==
    /\ i \in 1..Len(pending)
    /\ pending[i].phase = "go"
    /\ ~Writable(disk, pending[i].path)
    /\ pending' = RemoveAt(pending, i)
    /\ wg' = wg - 1
    /\ last' = [last EXCEPT !.op = "storeCompiled", !.path = pending[i].path,
                             !.res = "err", !.prev = <<last.op, last.name, last.res>>]
    /\ UNCHANGED <<Roots, IncludeLimit, CacheTemplates, Stash, files, compiled,
                   disk, art, pc, cur, out>>

\* a storeCompiled that calls t.wg.Done() only after a write that succeeded
storeCompiledPanicNoDone(i) ==
    /\ i \in 1..Len(pending)
    /\ pending[i].phase = "go"
    /\ ~Writable(disk, pending[i].path)
    /\ pending' = <<>>
    /\ pc' = "crashed"
    /\ last' = [last EXCEPT !.op = "storeCompiled", !.path = pending[i].path,
                             !.res = "panic", !.prev = <<last.op, last.name, last.res>>]
    /\ UNCHANGED <<Roots, IncludeLimit, CacheTemplates, Stash, files, compiled, wg,
                   disk, art, cur, out>>

\* os.WriteFile fails: t.Logger.Panic(err) in a goroutine ends the process,
\* whatever the caller is doing, after the deferred t.wg.Done()
storeCompiledPanic(i) ==
    /\ i \in 1..Len(pending)
    /\ pending[i].phase = "go"
    /\ ~Writable(disk, pending[i].path)
    /\ pending' = <<>>
    /\ wg' = wg - 1
    /\ pc' = "crashed"
    /\ last' = [last EXCEPT !.op = "storeCompiled", !.path = pending[i].path,
                             !.res = "panic", !.prev = <<last.op, last.name, last.res>>]
    /\ UNCHANGED <<Roots, IncludeLimit, CacheTemplates, Stash, files, compiled,
                   disk, art, cur, out>>

\* gledki_test.go:116: the test drops the entry of the template it has just
\* executed from t.compiled
DeleteCompiled ==
    /\ pc = "idle"
    /\ last.op = "Execute"
    /\ last.res = "ok"
    /\ last.path \in DOMAIN compiled
    /\ compiled' = [x \in (DOMAIN compiled) \ {last.path} |-> compiled[x]]
    /\ last' = [last EXCEPT !.op = "delete", !.tick = ~last.tick,
                             !.prev = <<last.op, last.name, last.res>>]
    /\ UNCHANGED <<Roots, IncludeLimit, CacheTemplates, Stash, files, wg,
                   disk, art, pending, pc, cur, out>>

\* a merge that keeps the entries the Stash already has
MergeStashKeepExisting(data) ==
    /\ pc = "idle"
    /\ \E x \in DOMAIN data : IF x \in DOMAIN Stash THEN Stash[x] # data[x] ELSE TRUE
    /\ Stash' = [x \in (DOMAIN Stash) \cup (DOMAIN data) |->
                    IF x \in DOMAIN Stash THEN Stash[x] ELSE data[x]]
    /\ last' = [last EXCEPT !.op = "MergeStash", !.tick = ~last.tick, !.arg = data,
                             !.prev = <<last.op, last.name, last.res>>]
    /\ UNCHANGED <<Roots, IncludeLimit, CacheTemplates, files, compiled, wg,
                   disk, art, pending, pc, cur, out>>

\* the caller invokes t.MergeStash(data)
MergeStash(data) ==
    /\ pc = "idle"
    /\ \E x \in DOMAIN data : IF x \in DOMAIN Stash THEN Stash[x] # data[x] ELSE TRUE
    /\ Stash' = [x \in (DOMAIN Stash) \cup (DOMAIN data) |->
                    IF x \in DOMAIN data THEN data[x] ELSE Stash[x]]
    /\ last' = [last EXCEPT !.op = "MergeStash", !.tick = ~last.tick, !.arg = data,
                             !.prev = <<last.op, last.name, last.res>>]
    /\ UNCHANGED <<Roots, IncludeLimit, CacheTemplates, files, compiled, wg,
                   disk, art, pending, pc, cur, out>>

---------------------------------------------------------------------------
(* Template trees on disk.  A tree is a set of <<root, name, content>>.     *)

MkDisk(T) == [p \in {FP(t[1], t[2]) : t \in T} |->
                 (CHOOSE t \in T : FP(t[1], t[2]) = p)[3]]

\* a wrapped main template with an include; root 2 shadows nothing of root 1
\* but holds its own copy of `a` and a file of its own, `b`
TreeBook ==
    { <<1, "m", <<Wrapper("w"), NL, Lit("x"), Include("a"), Ph("t"), NL>> >>,
      <<1, "a", <<Lit("y"), Ph("u"), NL>> >>,
      <<1, "w", <<Lit("h"), Ph("content"), Ph("t"), NL>> >>,
      <<NRoots, "a", <<Lit("z")>> >>,
      <<NRoots, "b", <<Lit("b"), Ph("t"), Include("a")>> >> }

\* a template that includes itself, and a template with a plain placeholder
TreeSelf ==
    { <<1, "m", <<Lit("x"), Include("m")>> >>,
      <<1, "b", <<Lit("b"), Ph("t"), Lit("e")>> >>,
      <<1, "a", <<>> >> }

\* an include and a wrapper that name a file that does not exist
TreeBad ==
    { <<1, "m", <<Lit("x"), Include("z")>> >>,
      <<1, "a", <<Wrapper("z"), NL, Lit("y")>> >>,
      <<1, "b", <<Lit("b"), Ph("t")>> >> }

Trees == {TreeBook, TreeSelf, TreeBad}

CallNames == {"m", "a", "b"}
LoadNames == {"a"}

Stashes == { [x \in {Ph("t")} |-> StrVal(<<Lit("T")>>)],
             [x \in {Ph("t")} |-> CompileFunc("m")] }

NoCall == [op |-> "", name |-> NoPath, path |-> NoPath, res |-> "", text |-> <<>>,
           log |-> {}, cache |-> TRUE, waited |-> FALSE, arg |-> <<>>,
           prev |-> <<"", NoPath, "">>, tick |-> FALSE]

\* New(roots, ext, tags, false): empty maps, IncludeLimit 3
InitInstance ==
    /\ files = EmptyMap
    /\ compiled = EmptyMap
    /\ wg = 0
    /\ pending = <<>>
    /\ pc = "idle"
    /\ cur = Idle
    /\ out = <<>>
    /\ last = NoCall

Init ==
    /\ InitInstance
    /\ Roots = [i \in 1..NRoots |-> i]
    /\ IncludeLimit = DefaultIncludeLimit
    /\ CacheTemplates \in BOOLEAN
    /\ Stash \in Stashes
    /\ disk \in {MkDisk(T) : T \in Trees}
    /\ art = EmptyMap

Calls ==
    \/ \E n \in CallNames : CallCompile(n)
    \/ \E n \in LoadNames : CallLoadFile(n)
    \/ \E n \in CallNames : ExecuteCompile(n)
    \/ ExecuteRender
    \/ ExecuteReturn

Background ==
    \/ \E i \in 1..MaxPending : storeCompiledOpen(i)
    \/ \E i \in 1..MaxPending : storeCompiledDone(i)

Next == Calls \/ Background

Spec == Init /\ [][Next]_vars

\* the same, with the test's removal of a compiled entry
NextDelete == Next \/ DeleteCompiled

SpecDelete == Init /\ [][NextDelete]_vars

---------------------------------------------------------------------------
(* Properties *)

\* a step in which a call of the caller finishes
CallEnds == last'.tick # last.tick

SourceWork == {"ReadFile", "ReadFileFailed", "ReadFileRetried", "wrap", "include", "go storeCompiled"}
NoSourceWork(log) == \A e \in log : e.e \notin SourceWork

\* C1 as stated: for every name whose resolved file exists, a Compile that
\* directly follows a Compile of the same name (caching enabled) returns the
\* same text and does no source read, no wrap/include pass, no write.
C1_AsStated ==
    [][(/\ CallEnds
        /\ last.op = "Compile" /\ last.res # "panic" /\ last.cache
        /\ last.path \in DOMAIN disk
        /\ last'.op = "Compile" /\ last'.name = last.name /\ last'.res # "panic")
       => (last'.text = last.text /\ NoSourceWork(last'.log))]_vars

\* C1 amended: when Compile(N) has returned text without error (caching
\* enabled), the Compile(N) that directly follows returns the same text,
\* reads no source file, runs no wrap/include pass and starts no write.
C1_Idempotent ==
    [][(/\ CallEnds
        /\ last.op = "Compile" /\ last.res = "ok" /\ last.cache
        /\ last.path \in DOMAIN disk
        /\ last'.op = "Compile" /\ last'.name = last.name)
       => (last'.res = "ok" /\ last'.text = last.text /\ NoSourceWork(last'.log))]_vars

C1_Witness ==
    /\ last.op = "Compile" /\ last.res = "ok" /\ last.cache
    /\ last.prev = <<"Compile", last.name, "ok">>
    /\ last.path \in DOMAIN disk
    /\ Len(last.text) > 0
    /\ last.log = {}

\* C2: whenever Execute has returned, with or without error, no storeCompiled
\* goroutine of the instance is still running.
C2_JoinedOnReturn ==
    (pc = "idle" /\ last.op = "Execute" /\ last.res \in {"ok", "err"})
        => (pending = <<>> /\ wg = 0)

\* C3: while a write for path P is scheduled or running, compiled[P] holds
\* the text being written and loadCompiled(P) answers from memory, without
\* any disk access.
C3_MemoryBeforeWrite ==
    \A i \in 1..Len(pending) :
        /\ pending[i].path \in DOMAIN compiled
        /\ compiled[pending[i].path] = pending[i].text
        /\ loadCompiled(Self, pending[i].path).res = "ok"
        /\ loadCompiled(Self, pending[i].path).text = pending[i].text
        /\ loadCompiled(Self, pending[i].path).s.log = {}

C3_Witness ==
    /\ last.op = "Compile" /\ last.res = "ok" /\ last.log = {}
    /\ \E i \in 1..Len(pending) : pending[i].path = last.path /\ Len(pending[i].text) > 0

\* C4: after a successful Execute with caching enabled the artifact of the
\* resolved path holds exactly the flattened text; once the compiled entry
\* is dropped, the next Compile or Execute of that name reads the artifact,
\* returns the same text, and neither loads the source nor runs wrap/include.
C4_ArtifactHoldsText ==
    (pc = "idle" /\ last.op \in {"Execute", "delete"} /\ last.res = "ok" /\ last.cache)
        => (last.path \in DOMAIN art /\ art[last.path] = last.text)

C4_ReloadStep ==
    (/\ CallEnds
     /\ last.op = "delete"
     /\ last'.op \in {"Compile", "Execute"} /\ last'.name = last.name)
    => (/\ last'.res = "ok"
        /\ last'.text = last.text
        /\ Ev("ReadArtifact", last.path) \in last'.log
        /\ \A e \in last'.log : e.p = last.path => e.e = "ReadArtifact")

C4_DiskRoundTrip == []C4_ArtifactHoldsText /\ [][C4_ReloadStep]_vars

C4_Witness ==
    /\ last.op = "Compile" /\ last.res = "ok"
    /\ last.prev = <<"delete", last.name, "ok">>
    /\ Len(last.text) > 0
    /\ Ev("ReadArtifact", last.path) \in last.log


LimitReached(log) == {e.p : e \in {x \in log : x.e = "panic"}}
WritesFor(q, p) == Cardinality({i \in 1..Len(q) : q[i].path = p})
SinkUntouched == IF last'.op = "Execute" THEN out' = <<>> ELSE out' = out
NothingCached(p) ==
    /\ p \notin DOMAIN compiled'
    /\ WritesFor(pending', p) = WritesFor(pending, p)
SelfIncluding(p) ==
    p \in DOMAIN disk /\ \E i \in 1..Len(disk[p]) : disk[p][i] = Include(p.base)

\* C7 as stated: a call in which the include limit is reached does not
\* return, writes nothing to the sink, and adds no compiled entry and no
\* write for the template being compiled.
C7_AsStated ==
    [][(CallEnds /\ LimitReached(last'.log) # {})
       => (/\ last'.res = "panic"
           /\ SinkUntouched
           /\ \A p \in LimitReached(last'.log) : NothingCached(p))]_vars

C7_LimitStep ==
    (CallEnds /\ LimitReached(last'.log) # {})
    => (/\ last'.res = "panic"
        /\ (pc = "idle" => SinkUntouched)
        /\ \A p \in LimitReached(last'.log) : NothingCached(p))

C7_SelfIncludePanics ==
    (last.op \in {"Compile", "Execute"} /\ SelfIncluding(last.path))
        => (last.res = "panic" /\ last.path \notin DOMAIN compiled)

\* C7 amended: reaching the include limit ends the call with a panic, never
\* with an error value, and leaves no compiled entry and no write for the
\* template whose compilation reached it; the sink stays empty when the
\* limit is reached in the Compile that Execute calls itself (a template
\* that includes itself always reaches the limit).
C7_LimitIsFatal == []C7_SelfIncludePanics /\ [][C7_LimitStep]_vars

C7_Witness ==
    /\ last.op = "Execute" /\ last.res = "panic"
    /\ Ev("panic", last.path) \in last.log
    /\ out = <<>>
    /\ last.path \notin DOMAIN compiled

---------------------------------------------------------------------------
(* Chains of includes: main -> F1 -> ... -> Fk, the main template at depth *)
(* 0, under every IncludeLimit.                                            *)

ChainNames == <<"m", "a", "b", "c", "d", "e", "f", "g">>
ChainKinds == {"plain", "wrapped", "twice"}

ChainFile(i, k, kind) ==
    IF i = k THEN <<Lit("y"), NL>>
    ELSE IF kind = "plain" THEN <<Lit("x"), Include(ChainNames[i + 2]), Ph("t")>>
    ELSE IF kind = "wrapped" THEN <<Wrapper("w"), NL, Include(ChainNames[i + 2]), NL>>
    ELSE <<Include(ChainNames[i + 2]), Lit("x"), Include(ChainNames[i + 2])>>

TreeChain(k, kind) ==
    {<<1, ChainNames[i + 1], ChainFile(i, k, kind)>> : i \in 0..k}
        \cup {<<1, "w", <<Lit("h"), Ph("content"), NL>> >>}

ChainDisks == {MkDisk(TreeChain(k, kind)) : k \in 0..MaxChain, kind \in ChainKinds}

Limits == (1..MaxLimit) \cup {DefaultIncludeLimit}

InitChain ==
    /\ InitInstance
    /\ Roots = <<1>>
    /\ IncludeLimit \in Limits
    /\ CacheTemplates \in BOOLEAN
    /\ Stash = [x \in {Ph("t")} |-> StrVal(<<Lit("T")>>)]
    /\ disk \in ChainDisks \cup {MkDisk(TreeSelf)}
    /\ art = EmptyMap

NextChain ==
    \/ \E n \in {"m", "a"} : CallCompile(n)
    \/ ExecuteCompile("m")
    \/ ExecuteRender
    \/ ExecuteReturn
    \/ Background

SpecChain == InitChain /\ [][NextChain]_vars

IsChain == disk \in ChainDisks
\* k: the number of files below the main template
ChainK == Cardinality({p \in DOMAIN disk : p.base # "w"}) - 1
ChainPos(n) == CHOOSE i \in 1..Len(ChainNames) : ChainNames[i] = n
\* depth of the deepest file when the file named n is the main template
Deepest(n) == ChainK - (ChainPos(n) - 1)

CompiledChain == last.op = "Compile" /\ IsChain /\ last.path \in DOMAIN disk

\* C5 as stated: with IncludeLimit = L a chain main -> F1 -> ... -> Fk
\* panics whenever k >= L; a template that includes itself panics.
C5_AsStated ==
    /\ (CompiledChain /\ Deepest(last.name.base) >= IncludeLimit)
            => last.res = "panic"
    /\ (last.op = "Compile" /\ SelfIncluding(last.path)) => last.res = "panic"

\* C5 amended: the chain panics exactly when a file at depth L holds an
\* include directive, that is when k >= L + 1, and completes for k <= L;
\* a template that includes itself panics under every limit.
C5_PanicFromDepth ==
    /\ CompiledChain
            => IF Deepest(last.name.base) >= IncludeLimit + 1
               THEN last.res = "panic" ELSE last.res = "ok"
    /\ (last.op = "Compile" /\ last.path \in DOMAIN disk
            /\ Include(last.name.base) \in {disk[last.path][i] : i \in 1..Len(disk[last.path])})
            => last.res = "panic"

C5_Witness ==
    /\ CompiledChain /\ last.res = "panic"
    /\ IncludeLimit = DefaultIncludeLimit
    /\ Deepest(last.name.base) = IncludeLimit + 1

\* C6: when the deepest included file is at depth <= L - 1 and all files
\* exist, Compile completes; and a Compile that does not panic under L does
\* not panic under any larger limit.
C6_NoPanicBelowLimit ==
    /\ (CompiledChain /\ Deepest(last.name.base) <= IncludeLimit - 1)
            => last.res = "ok"
    /\ \A n \in {"m", "a"} : \A l \in Limits :
          (l > IncludeLimit /\ Compile(Self, Rel(n), <<"caller">>).res # "panic")
              => Compile([Self EXCEPT !.limit = l], Rel(n), <<"caller">>).res # "panic"

C6_Witness ==
    /\ CompiledChain /\ last.res = "ok"
    /\ Deepest(last.name.base) = IncludeLimit - 1
    /\ IncludeLimit >= 2
    /\ Ev("include", last.path) \in last.log

---------------------------------------------------------------------------
(* The two passes as functions of a text and of the files on disk.         *)

FilesA == { <<Lit("y"), Ph("u"), NL>>,
            <<Wrapper("w"), NL, Lit("y"), Include("b"), NL>>,
            <<Include("b"), Ph("content"), Include("b")>> }
FilesB == { <<Lit("z"), NL>>,
            <<Lit("z"), Include("a")>> }
FilesW == { <<Lit("h"), Ph("content"), Ph("t"), Ph("content"), NL>>,
            <<Ph("content"), Include("b"), NL, NL>>,
            <<Wrapper("v"), NL, Lit("h"), Ph("content")>>,
            <<Lit("h"), Ph("t")>> }
FilesV == { <<Lit("g"), Ph("content"), NL>> }

\* every choice of a content for a, b, w and v; b and v may be missing
PassTrees ==
    { {<<1, "a", fa>>, <<1, "w", fw>>} \cup tb \cup tv :
        fa \in FilesA, fw \in FilesW,
        tb \in {{}} \cup {{<<1, "b", fb>>} : fb \in FilesB},
        tv \in {{}} \cup {{<<1, "v", fv>>} : fv \in FilesV} }

PassTexts == { <<Wrapper("w"), NL, Lit("x"), Ph("t"), NL>>,
               <<Lit("x"), Wrapper("w"), Ph("content"), NL, NL>>,
               <<Lit("x"), NL, Wrapper("v")>>,
               <<Wrapper("w"), Wrapper("v"), Lit("x")>>,
               <<Include("a"), Ph("t"), Include("b"), NL>>,
               <<Lit("x"), Ph("content"), Include("a"), Include("a")>>,
               <<Lit("x"), Ph("t"), NL>> }

InitPasses ==
    /\ InitInstance
    /\ Roots = <<1>>
    /\ IncludeLimit \in Limits
    /\ CacheTemplates = TRUE
    /\ Stash = EmptyMap
    /\ disk \in {MkDisk(T) : T \in PassTrees}
    /\ art = EmptyMap

NextPasses ==
    \/ \E text \in PassTexts : CallWrap(text)
    \/ \E text \in PassTexts : CallInclude(text)

SpecPasses == InitPasses /\ [][NextPasses]_vars

\* -- what the spec says the passes compute, stated on the files on disk --

Chomp(t) == IF t # <<>> /\ t[Len(t)] = NL THEN [i \in 1..(Len(t) - 1) |-> t[i]] ELSE t

WrapperAt(t) == {i \in 1..Len(t) : t[i].k = "wrap"}

\* t without the directive at i
WithoutDirective(t, i) == [j \in 1..(Len(t) - 1) |-> IF j < i THEN t[j] ELSE t[j + 1]]

\* t without the directive at i and without the line break that follows it
WithoutDirectiveLine(t, i) ==
    IF i < Len(t) /\ t[i + 1] = NL
    THEN [j \in 1..(Len(t) - 2) |-> IF j < i THEN t[j] ELSE t[j + 2]]
    ELSE WithoutDirective(t, i)

\* w with every `content` placeholder replaced by body
RECURSIVE Splice(_, _)
Splice(w, body) ==
    IF w = <<>> THEN <<>>
    ELSE (IF Head(w) = Ph("content") THEN body ELSE <<Head(w)>>) \o Splice(Tail(w), body)

OneWrapper(t) == Cardinality(WrapperAt(t)) = 1
TheWrapper(t) == CHOOSE i \in WrapperAt(t) : TRUE
WrapperFile(t) == FP(Roots[1], t[TheWrapper(t)].v)

WrappedOnce == last.op = "wrap" /\ OneWrapper(last.arg) /\ WrapperFile(last.arg) \in DOMAIN disk

\* C9 as stated: wrap(text) is W's content with every `content` placeholder
\* replaced by the text with the directive removed.
C9_AsStated ==
    WrappedOnce
        => /\ last.res = "ok"
           /\ last.text = Splice(disk[WrapperFile(last.arg)],
                                 WithoutDirective(last.arg, TheWrapper(last.arg)))

\* C9 amended: wrap(text) is W's content without its final line break, with
\* every `content` placeholder replaced by the text without its final line
\* break and without the directive and the line break that directly follows
\* the directive; all other placeholders of W stay as they are.
C9_WrapSplices ==
    WrappedOnce
        => /\ last.res = "ok"
           /\ last.text = Splice(Chomp(disk[WrapperFile(last.arg)]),
                                 WithoutDirectiveLine(Chomp(last.arg),
                                                      TheWrapper(last.arg)))

C9_Witness ==
    /\ WrappedOnce /\ last.res = "ok"
    /\ last.arg = <<Wrapper("w"), NL, Lit("x"), Ph("t"), NL>>
    /\ last.text = <<Lit("h"), Lit("x"), Ph("t"), Ph("t"), Lit("x"), Ph("t")>>

\* -- the include pass, restated as a token-by-token expansion --

Ref(ok, text) == [ok |-> ok, text |-> text]

FirstIn(S) == CHOOSE i \in S : \A j \in S : i <= j

\* a file's content after the wrap pass: final line break dropped, first
\* wrapper directive honoured, the wrapper not processed further
RefWrap(t) ==
    IF WrapperAt(t) = {} THEN Ref(TRUE, t)
    ELSE Let(FirstIn(WrapperAt(t)), LAMBDA i :
         Let(FP(Roots[1], t[i].v), LAMBDA w :
           IF w \notin DOMAIN disk THEN Ref(FALSE, <<>>)
           ELSE Ref(TRUE, Splice(Chomp(disk[w]), WithoutDirectiveLine(t, i)))))

\* t with every include directive replaced by its target's resolved content;
\* d counts the include directives entered so far
RECURSIVE RefInclude(_, _)
RefInclude(t, d) ==
    IF t = <<>> THEN Ref(TRUE, <<>>)
    ELSE Let(RefInclude(Tail(t), d), LAMBDA rest :
         IF Head(t).k # "inc"
         THEN Ref(rest.ok, <<Head(t)>> \o rest.text)
         ELSE IF d >= IncludeLimit \/ FP(Roots[1], Head(t).v) \notin DOMAIN disk
         THEN Ref(FALSE, <<>>)
         ELSE Let(RefWrap(Chomp(Chomp(disk[FP(Roots[1], Head(t).v)]))), LAMBDA w :
              IF ~w.ok THEN Ref(FALSE, <<>>)
              ELSE Let(RefInclude(w.text, d + 1), LAMBDA r :
                   Ref(r.ok /\ rest.ok, r.text \o rest.text))))

Resolvable == last.op = "include" /\ RefInclude(last.arg, 0).ok

\* C10: when every include directive of a text stays below the limit and
\* every file it needs exists, include(text) is the text with each include
\* directive replaced by its target's content, wrapped and then resolved in
\* the same way; every other token, placeholders included, is left as it
\* was, and no include directive remains.
C10_IncludeExpands ==
    Resolvable
        => /\ last.res = "ok"
           /\ last.text = RefInclude(last.arg, 0).text
           /\ \A i \in 1..Len(last.text) : last.text[i].k # "inc"

C10_Witness ==
    /\ Resolvable /\ last.res = "ok"
    /\ last.arg = <<Include("a"), Ph("t"), Include("b"), NL>>
    /\ disk[FP(1, "a")] = <<Wrapper("w"), NL, Lit("y"), Include("b"), NL>>
    /\ disk[FP(1, "w")] = <<Ph("content"), Include("b"), NL, NL>>
    /\ last.text = <<Lit("y"), Lit("z"), Lit("z"), NL, Ph("t"), Lit("z"), NL>>

---------------------------------------------------------------------------
(* Themes: the same file name under several roots, roots in any order.     *)

RootTag == <<"p", "q", "r", "s">>

\* the file `n` as root r holds it: every root's copy differs
ThemeFile(r, n) == <<Lit(RootTag[r]), Ph("t"), Lit(n)>>

\* `a` is in any set of roots, `b` only in the last one
ThemeDisks ==
    { MkDisk({<<r, "a", ThemeFile(r, "a")>> : r \in inA}
             \cup {<<NRoots, "b", ThemeFile(NRoots, "b")>>}) :
        inA \in SUBSET (1..NRoots) }

\* what findRoots can leave in t.Roots: existing directories, in the order
\* the caller gave them
RootLists ==
    { rs \in UNION {[1..k -> 1..NRoots] : k \in 1..NRoots} :
        \A i, j \in DOMAIN rs : i # j => rs[i] # rs[j] }

InitRoots ==
    /\ InitInstance
    /\ Roots \in RootLists
    /\ IncludeLimit = DefaultIncludeLimit
    /\ CacheTemplates = TRUE
    /\ Stash \in {[x \in {Ph("t")} |-> StrVal(<<Lit("T")>>)]}
    /\ disk \in ThemeDisks
    /\ art = EmptyMap

\* Compile and LoadFile are the callers of toFullPath
NextRoots ==
    \/ \E n \in CallNames : CallCompile(n)
    \/ \E n \in LoadNames : CallLoadFile(n)
    \/ Background

SpecRoots == InitRoots /\ [][NextRoots]_vars

\* the positions in t.Roots whose directory holds a readable file `n`
Hits(n) == {i \in 1..Len(Roots) : FP(Roots[i], n) \in DOMAIN disk}

Resolved == last.op \in {"LoadFile", "Compile"}

\* C8: first root wins. A call that resolves a logical name ends with the
\* path of the copy under the lowest-index root that holds the file, and
\* LoadFile returns that copy's content; a name that no root holds is not
\* found.
C8_FirstRootWins ==
    Resolved =>
        \A n \in CallNames :
            last.name = Rel(n) =>
                IF Hits(n) = {} THEN last.res = "err"
                ELSE /\ last.res = "ok"
                     /\ last.path = FP(Roots[FirstIn(Hits(n))], n)
                     /\ last.op = "LoadFile" => last.text = disk[last.path]

\* `a` is in every root, the roots are listed last first, and the copy of
\* the last root is the one loaded
C8_Witness ==
    /\ last.op = "LoadFile" /\ last.name = Rel("a") /\ last.res = "ok"
    /\ Len(Roots) = NRoots /\ Roots[1] = NRoots
    /\ Hits("a") = 1..NRoots
    /\ last.path = FP(NRoots, "a")
    /\ last.text = ThemeFile(NRoots, "a")

---------------------------------------------------------------------------
(* Missing files: the main template, a wrapper, an included file, at any   *)
(* nesting level.                                                          *)

\* the main template does not exist
ErrMain ==
    { <<1, "a", <<Lit("y"), Ph("t"), NL>> >>,
      <<1, "b", <<Wrapper("w"), NL, Lit("z")>> >>,
      <<1, "w", <<Lit("h"), Ph("content")>> >> }

\* a file included by an included file is missing; so is one included by
\* the wrapper
ErrNested ==
    { <<1, "m", <<Wrapper("w"), NL, Lit("x"), Include("a"), NL>> >>,
      <<1, "w", <<Lit("h"), Ph("content"), Include("z"), NL>> >>,
      <<1, "a", <<Lit("y"), Include("c")>> >>,
      <<1, "b", <<Lit("z"), Ph("t")>> >> }

\* the wrapper of an included file is missing
ErrInclWrap ==
    { <<1, "m", <<Lit("x"), Ph("t"), Include("b"), NL>> >>,
      <<1, "b", <<Wrapper("v"), NL, Lit("z")>> >>,
      <<1, "a", <<Lit("y"), Ph("t")>> >> }

ErrTrees == {TreeBad, ErrMain, ErrNested, ErrInclWrap}

InitErr ==
    /\ InitInstance
    /\ Roots = [i \in 1..NRoots |-> i]
    /\ IncludeLimit = DefaultIncludeLimit
    /\ CacheTemplates \in BOOLEAN
    /\ Stash \in Stashes
    /\ disk \in {MkDisk(T) : T \in ErrTrees}
    /\ art = EmptyMap

SpecErr == InitErr /\ [][Next]_vars

\* the file a name stands for: the copy under the first root that has one
Exists(n) == Hits(n) # {}
Source(n) == disk[FP(Roots[FirstIn(Hits(n))], n)]

\* how the resolution of a file's content ends, reading the files in the
\* order of the directives: "ok", "err" at the first file that is missing,
\* "panic" at an include directive met at depth d >= IncludeLimit
RECURSIVE IncludeOutcome(_, _)
WrapOutcome(t, d) ==
    IF WrapperAt(Chomp(t)) = {} THEN IncludeOutcome(Chomp(t), d)
    ELSE Let(FirstIn(WrapperAt(Chomp(t))), LAMBDA i :
         IF ~Exists(Chomp(t)[i].v) THEN "err"
         ELSE IncludeOutcome(Splice(Chomp(Source(Chomp(t)[i].v)),
                                    WithoutDirectiveLine(Chomp(t), i)), d))

IncludeOutcome(t, d) ==
    IF t = <<>> THEN "ok"
    ELSE IF Head(t).k # "inc" THEN IncludeOutcome(Tail(t), d)
    ELSE IF d >= IncludeLimit THEN "panic"
    ELSE IF ~Exists(Head(t).v) THEN "err"
    ELSE Let(WrapOutcome(Chomp(Source(Head(t).v)), d + 1), LAMBDA r :
             IF r # "ok" THEN r ELSE IncludeOutcome(Tail(t), d))

\* the template named n, or a file it needs, is missing
Broken(n) == IF ~Exists(n) THEN TRUE ELSE WrapOutcome(Source(n), 0) = "err"

FailedReads(log) == {e \in log : e.e = "ReadFileFailed"}

\* C11: when the main template, a wrapper or an included file (at any level,
\* the wrapper of an included file counted) is missing, Compile returns an
\* error and Execute returns (0, error) with nothing written to the sink; the
\* load that failed was tried once in the call and not again.
C11_MissingFileIsError ==
    \A n \in CallNames :
        (last.op \in {"Compile", "Execute"} /\ last.name = Rel(n) /\ Broken(n))
            => /\ last.res = "err"
               /\ last.text = <<>>
               /\ Cardinality(FailedReads(last.log)) = 1
               /\ \A e \in last.log : e.e # "ReadFileRetried"
               /\ (pc = "idle" /\ last.op = "Execute") => out = <<>>

\* Execute of a template whose included file has a missing wrapper
C11_Witness ==
    /\ pc = "idle" /\ last.op = "Execute" /\ last.name = Rel("m") /\ last.res = "err"
    /\ disk = MkDisk(ErrInclWrap)
    /\ FailedReads(last.log) = {Ev("ReadFileFailed", [Rel("v") EXCEPT !.ext = TRUE])}
    /\ out = <<>>

---------------------------------------------------------------------------
(* The life of the files: an artifact left by an earlier run of the         *)
(* application, source files edited while the instance is in use, and the   *)
(* package variable CacheTemplates set by the application.                  *)

LifeNames == {"a"}

\* the contents the file `a` goes through
VersionsA == { <<>>,
               <<Lit("y"), Ph("t")>>,
               <<Lit("z"), Include("b")>> }

LifeTree(va) == { <<1, "a", va>>, <<1, "b", <<Lit("b"), NL>> >> }

\* what an earlier run has stored as `a`'s artifact
OldArtifact == <<Lit("old"), Ph("t")>>

InitLife ==
    /\ InitInstance
    /\ Roots = [i \in 1..NRoots |-> i]
    /\ IncludeLimit = DefaultIncludeLimit
    /\ CacheTemplates \in BOOLEAN
    /\ Stash \in {[x \in {Ph("t")} |-> StrVal(<<Lit("T")>>)]}
    /\ disk \in {MkDisk(LifeTree(va)) : va \in VersionsA}
    /\ art \in {EmptyMap, [x \in {FP(1, "a")} |-> OldArtifact]}

\* somebody edits a template file
WriteSource(n, content) ==
    /\ FP(1, n) \in DOMAIN disk
    /\ disk[FP(1, n)] # content
    /\ disk' = Put(disk, FP(1, n), content)
    /\ UNCHANGED <<Roots, IncludeLimit, CacheTemplates, Stash, files, compiled, wg,
                   art, pending, pc, cur, out, last>>

\* the application assigns the package variable
SetCacheTemplates(b) ==
    /\ pc = "idle"
    /\ CacheTemplates # b
    /\ CacheTemplates' = b
    /\ UNCHANGED <<Roots, IncludeLimit, Stash, files, compiled, wg,
                   disk, art, pending, pc, cur, out, last>>

NextLife ==
    \/ \E n \in LifeNames : CallCompile(n)
    \/ \E n \in LifeNames : CallLoadFile(n)
    \/ \E n \in LifeNames : ExecuteCompile(n)
    \/ ExecuteRender
    \/ ExecuteReturn
    \/ Background
    \/ \E n \in LifeNames, va \in VersionsA : WriteSource(n, va)
    \/ \E b \in BOOLEAN : SetCacheTemplates(b)

SpecLife == InitLife /\ [][NextLife]_vars

\* the Compile call that ends in this step, for the path it resolved
CompileEnds(p) == CallEnds /\ last'.op = "Compile" /\ last'.path = p

\* C12: with CacheTemplates false, a Compile of an existing template runs
\* the wrap and include passes on the source, leaves the compiled map as it
\* was, reads no artifact and starts no write, whether or not an artifact or
\* a compiled entry exists.
C12_NoCachingWhenDisabled ==
    [][\A p \in DOMAIN disk :
        (CompileEnds(p) /\ ~CacheTemplates)
            => /\ {Ev("wrap", p), Ev("include", p)} \subseteq last'.log
               /\ \A e \in last'.log : e.e \notin {"ReadArtifact", "go storeCompiled"}
               /\ compiled' = compiled
               /\ pending' = pending]_vars

\* C13: when an artifact exists for the resolved path and the instance has
\* no compiled entry for it, Compile returns the artifact's content as it is
\* and does nothing else: no source read, no wrap, no include, no write,
\* whatever the source file holds now.
C13_ArtifactTrusted ==
    [][\A p \in DOMAIN art :
        (CompileEnds(p) /\ p \notin DOMAIN compiled)
            => /\ last'.res = "ok"
               /\ last'.text = art[p]
               /\ last'.log = {Ev("ReadArtifact", p)}
               /\ pending' = pending]_vars

\* the artifact of an earlier run is returned although the source flattens
\* to something else
C13_Witness ==
    /\ last.op = "Compile" /\ last.res = "ok"
    /\ last.log = {Ev("ReadArtifact", last.path)}
    /\ last.text = OldArtifact
    /\ disk[last.path] = <<Lit("z"), Include("b")>>
    /\ last.path \notin DOMAIN files

\* the LoadFile call that ends in this step, for the path it resolved
LoadFileEnds(p) == CallEnds /\ last'.op = "LoadFile" /\ last'.path = p

Memoized(p) == p \in DOMAIN files /\ Len(files[p]) > 0

C17_EntriesStay ==
    \A p \in DOMAIN files :
        Memoized(p) => (p \in DOMAIN files' /\ files'[p] = files[p])

C17_HitStep ==
    \A p \in DOMAIN disk :
        /\ (LoadFileEnds(p) /\ Memoized(p))
              => (last'.res = "ok" /\ last'.text = files[p] /\ last'.log = {})
        /\ (LoadFileEnds(p) /\ last'.res = "ok" /\ Len(last'.text) > 0)
              => files'[p] = last'.text

\* C17: a successful LoadFile of non-empty content leaves that content in
\* the raw cache; from then on no step of the instance removes or replaces
\* the entry, and every LoadFile of the path returns it without reading the
\* file, whatever the file holds now.
C17_RawMemoized == [][C17_EntriesStay /\ C17_HitStep]_vars

\* a LoadFile answered from the raw cache with content the file no longer has
C17_Witness ==
    /\ last.op = "LoadFile" /\ last.res = "ok" /\ last.log = {}
    /\ last.text = <<Lit("y"), Ph("t")>>
    /\ disk[last.path] = <<Lit("z"), Include("b")>>

\* C18: a raw-cache entry of length zero counts as absent: LoadFile reads the
\* file again, returns what the file holds now and caches it.
C18_EmptyIsAbsent ==
    [][\A p \in DOMAIN disk :
        (LoadFileEnds(p) /\ p \in DOMAIN files /\ files[p] = <<>>)
            => /\ last'.res = "ok"
               /\ Ev("ReadFile", p) \in last'.log
               /\ last'.text = disk[p]
               /\ files'[p] = disk[p]]_vars

\* two LoadFile calls in a row: the first read the file as empty, the second
\* reads it again and gets the content written in between
C18_Witness ==
    /\ last.op = "LoadFile" /\ last.res = "ok"
    /\ last.prev = <<"LoadFile", last.name, "ok">>
    /\ Ev("ReadFile", last.path) \in last.log
    /\ Len(last.text) > 0
    /\ files[last.path] = last.text

---------------------------------------------------------------------------
(* Several wrapper directives in one text.                                  *)

FileReads(log) == {e.p : e \in {x \in log : x.e \in {"ReadFile", "ReadFileFailed"}}}

ManyWrappers == last.op = "wrap" /\ Cardinality(WrapperAt(last.arg)) >= 2
FirstWrapperFile(t) == FP(Roots[1], t[FirstIn(WrapperAt(t))].v)

\* C14: of two or more wrapper directives only the first is honoured: wrap
\* returns, without error, the first directive's wrapper file around the
\* text without that directive; the later directives stay in the text and
\* the files they name are not loaded.
C14_FirstWrapperOnly ==
    (ManyWrappers /\ FirstWrapperFile(last.arg) \in DOMAIN disk)
        => /\ last.res = "ok"
           /\ last.text = Splice(Chomp(disk[FirstWrapperFile(last.arg)]),
                                 WithoutDirectiveLine(Chomp(last.arg),
                                                      FirstIn(WrapperAt(last.arg))))
           /\ FileReads(last.log) \subseteq {FirstWrapperFile(last.arg)}

\* the second directive names a file that does not exist and stays in the
\* result
C14_Witness ==
    /\ ManyWrappers /\ last.res = "ok"
    /\ last.arg = <<Wrapper("w"), Wrapper("v"), Lit("x")>>
    /\ FP(1, "v") \notin DOMAIN disk
    /\ FileReads(last.log) = {FP(1, "w")}
    /\ \E i \in 1..Len(last.text) : last.text[i] = Wrapper("v")

---------------------------------------------------------------------------
(* Wrapper files that name a wrapper themselves: chains and cycles.         *)

\* m is wrapped by w, w names v as its wrapper
WrapChainTree ==
    { <<1, "m", <<Wrapper("w"), NL, Lit("x"), Ph("t"), NL>> >>,
      <<1, "w", <<Wrapper("v"), NL, Lit("h"), Ph("content"), NL>> >>,
      <<1, "v", <<Lit("g"), Ph("content")>> >>,
      <<1, "a", <<Lit("y"), Include("m")>> >>,
      <<1, "b", <<Lit("z")>> >> }

\* w names itself as its wrapper, and so does b
WrapSelfTree ==
    { <<1, "m", <<Wrapper("w"), NL, Lit("x")>> >>,
      <<1, "w", <<Wrapper("w"), NL, Lit("h"), Ph("content")>> >>,
      <<1, "a", <<Include("m"), Lit("y")>> >>,
      <<1, "b", <<Wrapper("b"), Lit("z"), Ph("content")>> >> }

\* w names v and v names w
WrapCycleTree ==
    { <<1, "m", <<Wrapper("w"), NL, Lit("x")>> >>,
      <<1, "w", <<Wrapper("v"), NL, Lit("h"), Ph("content")>> >>,
      <<1, "v", <<Wrapper("w"), NL, Lit("g"), Ph("content")>> >>,
      <<1, "a", <<Wrapper("v"), NL, Include("b")>> >>,
      <<1, "b", <<Wrapper("w"), Lit("z")>> >> }

WrapTrees == {WrapChainTree, WrapSelfTree, WrapCycleTree}

InitWrap ==
    /\ InitInstance
    /\ Roots = [i \in 1..NRoots |-> i]
    /\ IncludeLimit = DefaultIncludeLimit
    /\ CacheTemplates \in BOOLEAN
    /\ Stash \in {[x \in {Ph("t")} |-> StrVal(<<Lit("T")>>)]}
    /\ disk \in {MkDisk(T) : T \in WrapTrees}
    /\ art = EmptyMap

SpecWrap == InitWrap /\ [][Next]_vars

\* the names of the files the resolution of a text loads: the wrapper named
\* by its first wrapper directive, and for every include directive of the
\* wrapped text the included file and what its own resolution loads
RECURSIVE IncludeLoads(_, _)
WrapLoads(t, d) ==
    IF WrapperAt(Chomp(t)) = {} THEN IncludeLoads(Chomp(t), d)
    ELSE Let(FirstIn(WrapperAt(Chomp(t))), LAMBDA i :
         {Chomp(t)[i].v} \cup
         (IF ~Exists(Chomp(t)[i].v) THEN {}
          ELSE IncludeLoads(Splice(Chomp(Source(Chomp(t)[i].v)),
                                   WithoutDirectiveLine(Chomp(t), i)), d)))

IncludeLoads(t, d) ==
    IF t = <<>> THEN {}
    ELSE IF Head(t).k # "inc" THEN IncludeLoads(Tail(t), d)
    ELSE IF d >= IncludeLimit THEN {}
    ELSE {Head(t).v} \cup IncludeLoads(Tail(t), d) \cup
         (IF ~Exists(Head(t).v) THEN {}
          ELSE WrapLoads(Chomp(Source(Head(t).v)), d + 1))

\* the flattened text of the template n: wrapped once, includes resolved
Flattened(n) == RefInclude(RefWrap(Chomp(Source(n))).text, 0).text

\* C15: wrapping is single-level. Compile of a template wraps it in the file
\* its first wrapper directive names and stops there: the wrapper directive
\* inside the wrapper file stays in the flattened text as it is, and the
\* only files loaded are the template, its wrapper, the included files and
\* their wrappers; a wrapper that names itself or a cycle of wrappers ends
\* like any other.
C15_SingleLevelWrap ==
    \A n \in CallNames :
        (last.op = "Compile" /\ last.name = Rel(n))
            => /\ last.res = "ok"
               /\ last.text = Flattened(n)
               /\ FileReads(last.log) \subseteq
                      {FP(Roots[1], x) : x \in {n} \cup WrapLoads(Source(n), 0)}

\* m is wrapped by w, which names itself as wrapper: w is loaded once and its
\* directive is still in the text
C15_Witness ==
    /\ last.op = "Compile" /\ last.name = Rel("m") /\ last.res = "ok"
    /\ disk = MkDisk(WrapSelfTree)
    /\ FileReads(last.log) = {FP(1, "m"), FP(1, "w")}
    /\ last.text = <<Wrapper("w"), NL, Lit("h"), Lit("x")>>

---------------------------------------------------------------------------
(* The forms of a path: the bare name, the name with the extension, the     *)
(* full path under a root.                                                  *)

RelExt(n) == [pre |-> <<>>, base |-> n, ext |-> TRUE]

\* the full paths tried are those under the first and the last root on disk
Forms(n) == {Rel(n), RelExt(n), FP(1, n), FP(NRoots, n)}

FormNames == {"a"}

NextForms ==
    \/ \E n \in FormNames : \E p \in Forms(n) : CallCompilePath(p)
    \/ \E n \in FormNames : \E p \in Forms(n) : CallLoadFilePath(p)
    \/ Background

\* every root is listed, in any order
InitForms ==
    /\ InitRoots
    /\ Len(Roots) = NRoots

SpecForms == InitForms /\ [][NextForms]_vars

\* the concrete path of the file n
Concrete(n) == FP(Roots[FirstIn(Hits(n))], n)

\* the forms that stand for the file n: its name, with or without the
\* extension, and its concrete path
SameFile(n) == {Rel(n), RelExt(n), Concrete(n)}

C16_OnePath ==
    \A n \in FormNames :
        Exists(n) =>
            /\ \A p \in SameFile(n) : toFullPath(disk, Roots, p) = Concrete(n)
            /\ (last.op \in {"Compile", "LoadFile"} /\ last.name \in SameFile(n))
                   => (last.res = "ok" /\ last.path = Concrete(n))

C16_OneEntry ==
    /\ \A p \in (DOMAIN files) \cup (DOMAIN compiled) \cup (DOMAIN art) :
           p \in DOMAIN disk /\ toFullPath(disk, Roots, p) = p
    /\ (/\ last.op \in {"Compile", "LoadFile"} /\ last.res = "ok"
        /\ last.prev[1] = last.op /\ last.prev[3] = "ok"
        /\ toFullPath(disk, Roots, last.prev[2]) = last.path)
           => last.log = {}

\* C16: the bare name of an existing file, the name with the extension and
\* the resolved full path resolve to one concrete path, which resolves to
\* itself; every key of the raw cache, of the compiled map and of the
\* artifacts is such a concrete path, and a call that follows a call of the
\* same kind for the same file, in whatever form, is answered from the cache.
C16_Canonical == C16_OnePath /\ C16_OneEntry

\* Compile by full path right after Compile by bare name: a cache hit
C16_Witness ==
    /\ Roots[1] = NRoots /\ Len(Roots) = NRoots /\ Hits("a") = 1..NRoots
    /\ last.op = "Compile" /\ last.res = "ok" /\ last.log = {}
    /\ last.name = Concrete("a")
    /\ last.prev = <<"Compile", Rel("a"), "ok">>
    /\ DOMAIN compiled = {Concrete("a")}

---------------------------------------------------------------------------
(* The Stash changes between calls.                                         *)

\* the wrapper w names a wrapper itself: its directive stays in the
\* flattened text; `u` is never in the Stash
StashTree ==
    { <<1, "m", <<Wrapper("w"), NL, Lit("x"), Ph("t"), Include("a"), Ph("u"), NL>> >>,
      <<1, "w", <<Wrapper("v"), NL, Lit("h"), Ph("content"), Ph("t")>> >>,
      <<1, "v", <<Lit("g"), Ph("content")>> >>,
      <<1, "a", <<Lit("y"), Ph("t"), Ph("s"), NL>> >>,
      <<1, "b", <<Lit("z"), Ph("s")>> >> }

StashT == [x \in {Ph("t")} |-> StrVal(<<Lit("T")>>)]
StashTS == [x \in {Ph("t"), Ph("s")} |-> StrVal(<<Lit(IF x = Ph("t") THEN "T" ELSE "S")>>)]
\* what MergeStash is called with
StashData == { [x \in {Ph("t")} |-> StrVal(<<Lit("U"), NL>>)],
               [x \in {Ph("s")} |-> StrVal(<<Lit("V")>>)] }

InitStash ==
    /\ InitInstance
    /\ Roots = [i \in 1..NRoots |-> i]
    /\ IncludeLimit = DefaultIncludeLimit
    /\ CacheTemplates \in BOOLEAN
    /\ Stash \in {StashT, StashTS}
    /\ disk = MkDisk(StashTree)
    /\ art = EmptyMap

StashNames == {"m", "a"}

NextStash ==
    \/ \E n \in StashNames : CallCompile(n)
    \/ \E n \in StashNames : ExecuteCompile(n)
    \/ ExecuteRender
    \/ ExecuteReturn
    \/ Background
    \/ \E data \in StashData : MergeStash(data)

SpecStash == InitStash /\ [][NextStash]_vars

\* the text written for a template text and a Stash of strings: every tag
\* that is in the Stash gives its value, every other tag gives nothing
RECURSIVE Rendered(_, _)
Rendered(t, st) ==
    IF t = <<>> THEN <<>>
    ELSE (IF Head(t).k \in {"lit", "nl"} THEN <<Head(t)>>
          ELSE IF Head(t) \in DOMAIN st THEN st[Head(t)].text
          ELSE <<>>) \o Rendered(Tail(t), st)

AnyStash == {StashT, StashTS} \cup StashData

\* Compile gives the same result and the same caches under every Stash
C19_CompileIgnoresStash ==
    \A n \in StashNames : \A st \in AnyStash :
        LET r1 == Compile(Self, Rel(n), <<"caller">>)
            r2 == Compile([Self EXCEPT !.stash = st], Rel(n), <<"caller">>)
        IN /\ r1.text = r2.text /\ r1.res = r2.res
           /\ r1.s.compiled = r2.s.compiled /\ r1.s.pending = r2.s.pending
           /\ r1.s.stash = Stash /\ r2.s.stash = st

C19_RenderStep ==
    \A n \in StashNames :
        (CallEnds /\ last'.op = "Execute" /\ last'.name = Rel(n))
            => /\ last'.res = "ok"
               /\ last'.text = Flattened(n)
               /\ out' = Rendered(Flattened(n), Stash')
               /\ CacheTemplates => compiled'[last'.path] = Flattened(n)

\* C19: the flattened text does not depend on the Stash: Compile gives the
\* same text and caches under every Stash, what is cached is the flattened
\* text with its placeholders, and every Execute renders it with the Stash
\* of that moment.
C19_StashIndependent == []C19_CompileIgnoresStash /\ [][C19_RenderStep]_vars

\* Execute, MergeStash, Execute: the second Execute takes the text from the
\* compiled map and writes the new values
C19_Witness ==
    /\ pc = "idle" /\ last.op = "Execute" /\ last.res = "ok" /\ last.name = Rel("m")
    /\ last.prev = <<"MergeStash", Rel("m"), "ok">>
    /\ last.log = {}
    /\ Stash[Ph("t")] = StrVal(<<Lit("U"), NL>>)
    /\ out = <<NL, Lit("h"), Lit("x"), Lit("U"), NL, Lit("y"), Lit("U"), NL,
               Lit("U"), NL>>

\* the plain placeholders of a text
Placeholders(t) == {t[i] : i \in {j \in 1..Len(t) : t[j].k = "ph"}}
Tokens(t) == {t[i] : i \in 1..Len(t)}

ExecuteDone(n) == pc = "idle" /\ last.op = "Execute" /\ last.name = Rel(n) /\ last.res = "ok"

\* C20: Execute renders in strict mode: what reaches the sink is the
\* flattened text with every tag that is in the Stash replaced by its value
\* and every other tag, a directive left in the text included, replaced by
\* nothing.  wrap and include are not strict: the placeholders of the
\* template file are all still in the flattened text.
C20_StrictRender ==
    \A n \in StashNames :
        ExecuteDone(n)
            => /\ out = Rendered(last.text, Stash)
               /\ \A tok \in Tokens(out) : ~IsTag(tok)
               /\ Placeholders(Source(n)) \subseteq Tokens(last.text)

\* `u` and the wrapper directive of the wrapper file are in the flattened
\* text and not in the Stash: nothing is written for them
C20_Witness ==
    /\ ExecuteDone("m") /\ Stash = StashT
    /\ {Ph("u"), Ph("s"), Wrapper("v")} \subseteq Tokens(last.text)
    /\ out = <<NL, Lit("h"), Lit("x"), Lit("T"), Lit("y"), Lit("T"), Lit("T")>>

---------------------------------------------------------------------------
(* TagFuncs in the Stash: a closure that counts its calls                  *)
(* (TestIncludeLimitNoPanic) and the `body` function of the README example, *)
(* which sets Stash["generator"].                                           *)

FuncTree ==
    { <<1, "simple", <<Wrapper("w"), NL, Ph("generator"), Ph("level"), Ph("body"),
                       Include("a"), Ph("generator"), NL>> >>,
      <<1, "w", <<Lit("h"), Ph("level"), Ph("content"), Ph("level"), NL>> >>,
      <<1, "a", <<Lit("y"), Ph("level"), Ph("generator"), NL>> >> }

Gledki == StrVal(<<Lit("G")>>)
Body == SetFunc(Ph("generator"), <<Lit("S")>>, <<Lit("p")>>)

FuncStash == [x \in {Ph("generator"), Ph("level")} |->
                 IF x = Ph("level") THEN Counter(0) ELSE Gledki]

\* what MergeStash is called with
FuncData == { [x \in {Ph("generator")} |-> Gledki],
              [x \in {Ph("body")} |-> Body],
              [x \in {Ph("level")} |-> Counter(0)] }

InitFunc ==
    /\ InitInstance
    /\ Roots = [i \in 1..NRoots |-> i]
    /\ IncludeLimit = DefaultIncludeLimit
    /\ CacheTemplates \in BOOLEAN
    /\ Stash \in {FuncStash, [x \in {Ph("level")} |-> Counter(0)]}
    /\ disk = MkDisk(FuncTree)
    /\ art = EmptyMap

FuncNames == {"simple", "a"}

NextFunc ==
    \/ \E n \in FuncNames : ExecuteCompile(n)
    \/ ExecuteRender
    \/ ExecuteReturn
    \/ Background
    \/ \E data \in FuncData : MergeStash(data)

SpecFunc == InitFunc /\ [][NextFunc]_vars

\* the places of a text whose tag holds a value of kind k in the Stash st
PlacesOf(t, st, k) ==
    {i \in 1..Len(t) : IsTag(t[i]) /\ t[i] \in DOMAIN st /\ st[t[i]].k = k}

\* the count kept under `level`
Level(st) == IF Ph("level") \in DOMAIN st /\ st[Ph("level")].k = "Counter"
             THEN st[Ph("level")].n ELSE 0

\* the places before i where a TagFunc sets the key
SettersBefore(t, st, i, key) ==
    {j \in PlacesOf(t, st, "Set") : j < i /\ st[t[j]].key = key}

Max(S) == CHOOSE x \in S : \A y \in S : y <= x

\* what is written for place i of the text t when the render starts with the
\* Stash st: a counting TagFunc writes the number of its places up to i on
\* top of its count, a setting TagFunc writes its text, a key that a TagFunc
\* has set at an earlier place gives the value set by the last of them, any
\* other key gives its value in st
Piece(t, st, i) ==
    IF ~IsTag(t[i]) THEN <<t[i]>>
    ELSE IF i \in PlacesOf(t, st, "Counter")
    THEN Itoa(st[t[i]].n + Cardinality({j \in PlacesOf(t, st, "Counter") : j <= i}))
    ELSE IF i \in PlacesOf(t, st, "Set") THEN st[t[i]].text
    ELSE IF SettersBefore(t, st, i, t[i]) # {}
    THEN st[t[Max(SettersBefore(t, st, i, t[i]))]].val
    ELSE IF t[i] \in DOMAIN st THEN st[t[i]].text
    ELSE <<>>

RECURSIVE Pieces(_, _, _)
Pieces(t, st, i) == IF i > Len(t) THEN <<>> ELSE Piece(t, st, i) \o Pieces(t, st, i + 1)

\* a render step of Execute that ends without a panic
Renders == pc = "render" /\ pc' = "wait"

\* no TagFunc runs outside the render step: the count changes there only,
\* or when the caller puts a new closure into the Stash
C21_OnlyWhenRendering ==
    (~Renders /\ Level(Stash') # Level(Stash))
        => (last'.op = "MergeStash" /\ last'.tick # last.tick)

\* Compile leaves the Stash and the sink alone and keeps the placeholder of
\* the TagFunc in the text
C21_NotInCompile ==
    \A n \in FuncNames :
        LET r == Compile(Self, Rel(n), <<"caller">>)
        IN /\ r.s.stash = Stash /\ r.s.out = out
           /\ r.res = "ok"
           /\ Cardinality(PlacesOf(r.text, Stash, "Counter"))
                = Cardinality(PlacesOf(Flattened(n), Stash, "Counter"))

\* the render step calls the counting TagFunc once for each of its places in
\* the flattened text, and the k-th place gets the count plus k
C21_OncePerPlace ==
    Renders =>
        /\ Level(Stash') = Level(Stash)
                             + Cardinality(PlacesOf(cur.text, Stash, "Counter"))
        /\ out' = Pieces(cur.text, Stash, 1)

\* C21: TagFuncs of the Stash are called by the render step of Execute only,
\* once for each occurrence of their placeholder in the flattened text and in
\* the order of the text, never by Compile: a TagFunc that counts its calls
\* writes count+1, count+2, ... at its successive places.
C21_ProducersAtRender ==
    []C21_NotInCompile /\ [][C21_OnlyWhenRendering /\ C21_OncePerPlace]_vars

\* a fresh instance has executed `simple`: 1 and 4 in the wrapper file around
\* the content, 2 in the template, 3 in the included file
C21_Witness ==
    /\ ExecuteDone("simple") /\ last.prev[1] = ""
    /\ Level(Stash) = 4
    /\ Ph("body") \notin DOMAIN Stash
    /\ out = <<Lit("h"), Lit("1"), Lit("G"), Lit("2"), Lit("y"), Lit("3"), Lit("G"),
               Lit("G"), Lit("4")>>

\* the keys that the TagFuncs called for the text t set, with the value set
\* by the last of them
SetBy(t, st) ==
    LET keys == {st[t[j]].key : j \in PlacesOf(t, st, "Set")}
    IN [x \in keys |-> StrVal(st[t[Max(SettersBefore(t, st, Len(t) + 1, x))]].val)]

\* the plain placeholders of t before (after) the first call of a TagFunc
\* that sets their key
PlainPlaces(t, st) ==
    {i \in 1..Len(t) : /\ t[i].k = "ph" /\ t[i] \in DOMAIN st /\ st[t[i]].k = "str"
                       /\ \E j \in PlacesOf(t, st, "Set") : st[t[j]].key = t[i]}

C22_RenderStep ==
    (Renders /\ PlacesOf(cur.text, Stash, "Set") # {}) =>
        /\ \A i \in PlainPlaces(cur.text, Stash) :
              Piece(cur.text, Stash, i)
                = IF \E j \in PlacesOf(cur.text, Stash, "Set") :
                        j < i /\ Stash[cur.text[j]].key = cur.text[i]
                  THEN Body.val ELSE Stash[cur.text[i]].text
        /\ out' = Pieces(cur.text, Stash, 1)
        /\ \A x \in DOMAIN SetBy(cur.text, Stash) : Stash'[x] = SetBy(cur.text, Stash)[x]
        /\ \A x \in DOMAIN Stash :
              (x \notin DOMAIN SetBy(cur.text, Stash) /\ Stash[x].k # "Counter")
                  => Stash'[x] = Stash[x]

\* C22: an entry of the Stash that a TagFunc sets while Execute renders is
\* seen by the placeholders after the place of the TagFunc in the flattened
\* text and by none before it: each placeholder of the key writes the value
\* set by the last TagFunc before it, or the value the Stash held when the
\* render started when there is none; the entry stays set when Execute is
\* over.
C22_SeenByLaterPlaces == [][C22_RenderStep]_vars

\* the README example: `generator` before `body` writes G, the two after it
\* write S, the value set inside the `body` TagFunc
C22_Witness ==
    /\ ExecuteDone("simple")
    /\ last.prev = <<"MergeStash", NoPath, "">>
    /\ {Ph("body"), Ph("generator")} \subseteq DOMAIN Stash
    /\ Stash[Ph("body")] = Body
    /\ Stash[Ph("generator")] = StrVal(<<Lit("S")>>)
    /\ out = <<Lit("h"), Lit("1"), Lit("G"), Lit("2"), Lit("p"), Lit("y"), Lit("3"),
               Lit("S"), Lit("S"), Lit("4")>>

---------------------------------------------------------------------------
(* Construction.  A configured root is given with what os.Stat finds for   *)
(* it: a relative root is looked for next to the executable (byExe) and    *)
(* under the working directory (byCwd), an absolute root as it is (self).  *)
(* Stat finds a directory, a file, nothing (ErrNotExist), or fails with    *)
(* another error ("nostat": a parent that is a file or cannot be searched).*)
(* id names the directory tree that is found there.                        *)

Kinds == {"dir", "file", "missing", "nostat"}

RelRoot(id, byExe, byCwd) ==
    [id |-> id, abs |-> FALSE, byExe |-> byExe, byCwd |-> byCwd, self |-> "missing"]
AbsRoot(id, self) ==
    [id |-> id, abs |-> TRUE, byExe |-> "missing", byCwd |-> "missing", self |-> self]

\* os.Stat: the FileInfo is nil whenever the error is not
osStat(kind) ==
    [finfo |-> IF kind \in {"dir", "file"} THEN kind ELSE "nil",
     err |-> IF kind = "missing" THEN "ErrNotExist"
             ELSE IF kind = "nostat" THEN "other" ELSE "nil"]

\* line 349: (err != nil && errors.Is(err, os.ErrNotExist)) || !finfo.IsDir();
\* IsDir called on a nil FileInfo is a nil dereference
dirExists(kind) ==
    LET st == osStat(kind)
    IN IF st.err # "nil" /\ st.err = "ErrNotExist" THEN "false"
       ELSE IF st.finfo = "nil" THEN "panic"
       ELSE IF st.finfo # "dir" THEN "false"
       ELSE "true"

RECURSIVE findRootsFrom(_, _, _)
\* the loop of findRoots over roots[i..], with t.Roots so far
findRootsFrom(found, roots, i) ==
    IF i > Len(roots) THEN [roots |-> found, res |-> "ok"]
    ELSE LET root == roots[i]
             next == findRootsFrom(Append(found, root.id), roots, i + 1)
             byExe == dirExists(root.byExe)
             byCwd == dirExists(root.byCwd)
             self == dirExists(root.self)
         IN IF ~root.abs
            THEN IF byExe = "panic" THEN [roots |-> found, res |-> "panic"]
                 ELSE IF byExe = "true" THEN next
                 ELSE IF byCwd = "panic" THEN [roots |-> found, res |-> "panic"]
                 ELSE IF byCwd = "true" THEN next
                 ELSE [roots |-> found, res |-> "err"]
            ELSE IF self = "panic" THEN [roots |-> found, res |-> "panic"]
                 ELSE IF self = "true" THEN next
                 ELSE [roots |-> found, res |-> "err"]

findRoots(roots) == findRootsFrom(<<>>, roots, 1)

\* filepath.WalkDir(root, ...): the entries under root
WalkDir(d, root) == {p \in DOMAIN d : Len(p.pre) > 0 /\ p.pre[1] = root}

RECURSIVE walk(_, _)
\* the callback of loadFiles on the entries still to visit; WalkDir visits
\* them in lexical order and stops at the first error
walk(s, todo) ==
    IF todo = {} THEN [s |-> s, res |-> "ok"]
    ELSE LET path == CHOOSE p \in todo : TRUE
         IN IF HasSuffixExt(path)
            THEN Let(LoadFile(s, path), LAMBDA r :
                     IF r.res # "ok" THEN [s |-> r.s, res |-> "err"]
                     ELSE walk(r.s, todo \ {path}))
            ELSE walk(s, todo \ {path})

RECURSIVE loadFilesFrom(_, _)
loadFilesFrom(s, i) ==
    IF i > Len(s.roots) THEN [s |-> s, res |-> "ok"]
    ELSE Let(walk(s, WalkDir(s.disk, s.roots[i])), LAMBDA r :
             IF r.res # "ok" THEN r ELSE loadFilesFrom(r.s, i + 1))

RECURSIVE walkSkipping(_, _)
walkSkipping(s, todo) ==
    IF todo = {} THEN [s |-> s, res |-> "ok"]
    ELSE LET path == CHOOSE p \in todo : TRUE
         IN IF HasSuffixExt(path)
            THEN walkSkipping(LoadFile(s, path).s, todo \ {path})
            ELSE walkSkipping(s, todo \ {path})

RECURSIVE loadFilesFromSkipping(_, _)
loadFilesFromSkipping(s, i) ==
    IF i > Len(s.roots) THEN [s |-> s, res |-> "ok"]
    ELSE loadFilesFromSkipping(walkSkipping(s, WalkDir(s.disk, s.roots[i])).s, i + 1)

\* loadFiles that leaves out the files it cannot read
loadFilesSkipUnreadable(s) == loadFilesFromSkipping(s, 1)

loadFiles(s) == loadFilesFrom(s, 1)

Nil == [nil |-> TRUE]

\* New(roots, ext, tags, loadFiles): the instance, or nil with an error
New(roots, load) ==
    LET t == [files |-> EmptyMap, compiled |-> EmptyMap, wg |-> 0, pending |-> <<>>,
              stash |-> EmptyMap, out |-> out, disk |-> disk, art |-> art,
              roots |-> <<>>, limit |-> DefaultIncludeLimit, cache |-> CacheTemplates,
              log |-> {}]
        fr == findRoots(roots)
    IN IF fr.res # "ok" THEN [t |-> Nil, res |-> fr.res, log |-> {}]
       ELSE IF load
       THEN Let(loadFiles([t EXCEPT !.roots = fr.roots]), LAMBDA lf :
                IF lf.res # "ok" THEN [t |-> Nil, res |-> "err", log |-> lf.s.log]
                ELSE [t |-> lf.s, res |-> "ok", log |-> lf.s.log])
       ELSE [t |-> [t EXCEPT !.roots = fr.roots], res |-> "ok", log |-> {}]

\* the caller invokes New(roots, ext, tags, load); an instance is in use once
\* New has returned one, and the caller has none when New has failed
CallNew(roots, load) ==
    /\ pc = "new"
    /\ LET r == New(roots, load)
       IN /\ IF r.res = "ok"
             THEN /\ Roots' = r.t.roots
                  /\ IncludeLimit' = r.t.limit
                  /\ files' = r.t.files
                  /\ compiled' = r.t.compiled
                  /\ Stash' = r.t.stash
                  /\ wg' = r.t.wg
                  /\ pending' = r.t.pending
                  /\ pc' = "idle"
             ELSE /\ pc' = "none"
                  /\ UNCHANGED <<Roots, IncludeLimit, files, compiled, Stash, wg,
                                 pending>>
          /\ last' = [Obs("New", NoPath, NoPath, r.res, <<>>, r.log, FALSE)
                          EXCEPT !.arg = <<roots, load>>, !.prev = <<"", NoPath, "">>,
                                 !.tick = FALSE]
    /\ UNCHANGED <<CacheTemplates, disk, art, cur, out>>

\* TestNew: two roots with templates, and tpls_bad with a file that cannot be
\* read; `notes` has another extension
NewTree ==
    { <<1, "a", <<Lit("y"), Ph("t"), NL>> >>,
      <<1, "b", <<Lit("b"), Include("a")>> >>,
      <<NRoots, "a", <<Lit("z")>> >>,
      <<NRoots, "c", <<>> >> }

Notes(r) == [pre |-> <<r>>, base |-> "notes", ext |-> FALSE]

NewDisks ==
    { Put(MkDisk(NewTree), Notes(1), <<Lit("n")>>),
      Put(Put(MkDisk(NewTree), Notes(1), <<Lit("n")>>), FP(NRoots, "_noread"), NoRead),
      Put(Put(MkDisk(NewTree), Notes(1), NoRead), FP(1, "a"), NoRead) }

\* the test configures one or two roots
MaxRootsGiven == 2

\* the two directory trees that hold templates, configured in every way
RootCfgs ==
    UNION { {RelRoot(id, e, c) : e \in Kinds, c \in Kinds}
              \cup {AbsRoot(id, k) : k \in Kinds} : id \in {1, NRoots} }

RootsGiven == UNION {[1..k -> RootCfgs] : k \in 1..MaxRootsGiven}

\* no instance yet
InitNew ==
    /\ pc = "new"
    /\ Roots = <<>>
    /\ IncludeLimit = 0
    /\ files = EmptyMap
    /\ compiled = EmptyMap
    /\ Stash = EmptyMap
    /\ wg = 0
    /\ pending = <<>>
    /\ cur = Idle
    /\ out = <<>>
    /\ last = NoCall
    /\ CacheTemplates \in BOOLEAN
    /\ disk \in NewDisks
    /\ art = EmptyMap

NewNames == {"a", "b"}

NextNew ==
    \/ \E roots \in RootsGiven : \E load \in BOOLEAN : CallNew(roots, load)
    \/ \E n \in NewNames : CallLoadFile(n)
    \/ \E n \in NewNames : ExecuteCompile(n)
    \/ ExecuteRender
    \/ ExecuteReturn
    \/ Background

SpecNew == InitNew /\ [][NextNew]_vars

\* what Stat finds for a configured root, under the strategies tried for it
Located(root) ==
    IF root.abs THEN root.self = "dir"
    ELSE root.byExe = "dir" \/ root.byCwd = "dir"

NewEnds == last'.op = "New" /\ last' # last

\* New has returned nil and an error
NoInstance == last'.res = "err" /\ pc' = "none" /\ Roots' = <<>> /\ files' = EmptyMap

\* C23: New called with a root that is not found as an existing directory
\* (missing, not a directory or not stat-able, under every strategy tried for
\* it) returns an error and no instance, and does not panic.
C23_BadRootIsError ==
    [][(NewEnds /\ \E i \in DOMAIN last'.arg[1] : ~Located(last'.arg[1][i]))
          => NoInstance]_vars

\* findRoots finds every root: a relative root next to the executable, or
\* under the working directory when Stat finds no directory next to the
\* executable; an absolute root as it is
Found(root) ==
    IF root.abs THEN root.self = "dir"
    ELSE \/ root.byExe = "dir"
         \/ root.byExe \in {"file", "missing"} /\ root.byCwd = "dir"

\* the files with the extension under the roots given
Templates(roots) ==
    {p \in DOMAIN disk : p.ext /\ \E i \in DOMAIN roots : p.pre = <<roots[i].id>>}

C24_NewStep ==
    (NewEnds /\ \A i \in DOMAIN last'.arg[1] : Found(last'.arg[1][i])) =>
        LET roots == last'.arg[1]
            load == last'.arg[2]
            instance == /\ last'.res = "ok" /\ pc' = "idle"
                        /\ Roots' = [i \in DOMAIN roots |-> roots[i].id]
                        /\ compiled' = EmptyMap
                        /\ IncludeLimit' = 3
        IN IF ~load THEN instance /\ files' = EmptyMap
           ELSE IF \E p \in Templates(roots) : disk[p] = NoRead THEN NoInstance
           ELSE /\ instance
                /\ files' = [p \in Templates(roots) |-> disk[p]]

\* C24: New with loadFiles = false returns an instance with an empty files
\* map, an empty compiled map and IncludeLimit 3.  New with loadFiles = true
\* returns an instance whose files map holds every file with the extension
\* under every root, and nothing else, or an error and no instance when one
\* of these files cannot be read.  (The roots are all found.)
C24_NewLoadsFiles == [][C24_NewStep]_vars

\* New with loadFiles = true and two roots has loaded the four templates, the
\* empty one included, and not the file with another extension
C24_Witness ==
    /\ last.op = "New" /\ last.res = "ok" /\ last.arg[2]
    /\ Roots = <<NRoots, 1>>
    /\ DOMAIN files = {FP(1, "a"), FP(1, "b"), FP(NRoots, "a"), FP(NRoots, "c")}
    /\ files[FP(NRoots, "c")] = <<>>
    /\ Notes(1) \in DOMAIN disk

---------------------------------------------------------------------------
(* Artifacts that cannot be written: the templates of one root are in a     *)
(* directory without write permission.                                      *)

WriteDisks ==
    { MkDisk(TreeBook),
      Put(MkDisk(TreeBook), Dir(1), NoWrite),
      Put(MkDisk(TreeBook), Dir(NRoots), NoWrite) }

InitWrite ==
    /\ InitInstance
    /\ Roots = [i \in 1..NRoots |-> i]
    /\ IncludeLimit = DefaultIncludeLimit
    /\ CacheTemplates \in BOOLEAN
    /\ Stash = [x \in {Ph("t")} |-> StrVal(<<Lit("T")>>)]
    /\ disk \in WriteDisks
    /\ art = EmptyMap

NextWrite ==
    \/ Next
    \/ \E i \in 1..MaxPending : storeCompiledPanic(i)

SpecWrite == InitWrite /\ [][NextWrite]_vars

\* the writes in flight that os.WriteFile cannot do
Failing(q) == {i \in 1..Len(q) : ~Writable(disk, q[i].path)}

Crashed == pc = "crashed"

\* a write that fails ends in a panic and in no other way
C25_FailStep ==
    Cardinality(Failing(pending')) < Cardinality(Failing(pending))
        => /\ pc' = "crashed"
           /\ last'.op = "storeCompiled" /\ last'.res = "panic"

\* the calls of Compile and Execute return no error for it, and nothing
\* runs once the process has ended
C25_NoErrorValue ==
    /\ (CallEnds /\ last'.op \in {"Compile", "Execute"}) => last'.res = "ok"
    /\ Crashed => UNCHANGED vars

\* C25: a write of the artifact that fails is fatal: storeCompiled panics,
\* the failure is neither ignored (the goroutine never ends in another way
\* and no artifact appears) nor handed to the caller of Compile or Execute
\* as an error.
C25_WriteFailureIsFatal ==
    /\ [][C25_FailStep /\ C25_NoErrorValue]_vars
    /\ [](\A p \in DOMAIN art : Writable(disk, p))

\* Compile has returned the text of `m`, whose directory cannot be written:
\* the process has ended in the goroutine
C25_Witness ==
    /\ Crashed
    /\ last.op = "storeCompiled" /\ last.res = "panic" /\ last.path = FP(1, "m")
    /\ last.prev = <<"Compile", Rel("m"), "ok">>
    /\ FP(1, "m") \in DOMAIN compiled
    /\ art = EmptyMap

---------------------------------------------------------------------------
(* The compiled map while the files and the artifacts change under the      *)
(* running program.                                                         *)

Without(f, key) == [x \in (DOMAIN f) \ {key} |-> f[x]]

\* somebody removes a template file
RemoveSource(n) ==
    /\ FP(1, n) \in DOMAIN disk
    /\ disk' = Without(disk, FP(1, n))
    /\ UNCHANGED <<Roots, IncludeLimit, CacheTemplates, Stash, files, compiled, wg,
                   art, pending, pc, cur, out, last>>

\* somebody removes an artifact, or puts another text in its place
RemoveArtifact(n) ==
    /\ FP(1, n) \in DOMAIN art
    /\ art' = Without(art, FP(1, n))
    /\ UNCHANGED <<Roots, IncludeLimit, CacheTemplates, Stash, files, compiled, wg,
                   disk, pending, pc, cur, out, last>>

WriteArtifact(n, content) ==
    /\ FP(1, n) \in DOMAIN art
    /\ art[FP(1, n)] # content
    /\ art' = Put(art, FP(1, n), content)
    /\ UNCHANGED <<Roots, IncludeLimit, CacheTemplates, Stash, files, compiled, wg,
                   disk, pending, pc, cur, out, last>>

KeepData == { [x \in {Ph("t")} |-> StrVal(<<Lit("U")>>)] }

NextKeep ==
    \/ \E n \in LifeNames : CallCompile(n)
    \/ \E n \in LifeNames : CallLoadFile(n)
    \/ \E n \in LifeNames : ExecuteCompile(n)
    \/ ExecuteRender
    \/ ExecuteReturn
    \/ Background
    \/ \E n \in LifeNames, va \in VersionsA : WriteSource(n, va)
    \/ \E n \in LifeNames : RemoveSource(n)
    \/ \E n \in LifeNames : RemoveArtifact(n)
    \/ \E n \in LifeNames : WriteArtifact(n, OldArtifact)
    \/ \E data \in KeepData : MergeStash(data)

SpecKeep == InitLife /\ [][NextKeep]_vars

\* C26: an entry of the compiled map stays as it is: once compiled[P] is
\* set, no call of Compile, Execute, LoadFile or MergeStash and no change of
\* the source file or of the artifact changes or removes it.
C26_EntriesPermanent ==
    [][\A p \in DOMAIN compiled : p \in DOMAIN compiled' /\ compiled'[p] = compiled[p]]_vars

\* `a` was compiled, then its source was edited and another artifact was put
\* in place of its own: a later Compile still returns the entry
C26_Witness ==
    /\ pc = "idle" /\ last.op = "Compile" /\ last.res = "ok"
    /\ last.prev = <<"Compile", Rel("a"), "ok">>
    /\ FP(1, "a") \in DOMAIN compiled
    /\ compiled[FP(1, "a")] = <<Lit("y"), Ph("t")>>
    /\ last.text = compiled[FP(1, "a")]
    /\ FP(1, "a") \in DOMAIN disk /\ disk[FP(1, "a")] = <<Lit("z"), Include("b")>>
    /\ FP(1, "a") \in DOMAIN art /\ art[FP(1, "a")] = OldArtifact

---------------------------------------------------------------------------
(* MergeStash *)

\* a call of MergeStash has returned
MergeEnds == last'.op = "MergeStash" /\ last'.tick # last.tick

C27_MergeStep ==
    MergeEnds =>
        LET D == last'.arg
        IN /\ DOMAIN Stash' = (DOMAIN Stash) \cup (DOMAIN D)
           /\ \A k \in DOMAIN D : Stash'[k] = D[k]
           /\ \A k \in (DOMAIN Stash) \ (DOMAIN D) : Stash'[k] = Stash[k]
           /\ UNCHANGED <<Roots, IncludeLimit, CacheTemplates, files, compiled, wg,
                          pending, disk, art, out>>

\* C27: MergeStash(D) sets every key of D in the Stash to the value D has for
\* it, over the entry the Stash had for the key, leaves every other entry of
\* the Stash as it is, and changes nothing else of the instance.
C27_MergeOverrides == [][C27_MergeStep]_vars

\* the Stash held t and s; MergeStash has put another value under t and s is
\* as it was
C27_Witness ==
    /\ last.op = "MergeStash"
    /\ last.arg = [x \in {Ph("t")} |-> StrVal(<<Lit("U"), NL>>)]
    /\ Stash = [x \in {Ph("t"), Ph("s")} |->
                   IF x = Ph("t") THEN StrVal(<<Lit("U"), NL>>) ELSE StrVal(<<Lit("S")>>)]
    /\ compiled # EmptyMap

---------------------------------------------------------------------------
(* The error a failing call returns.  LoadFile returns the error of         *)
(* os.ReadFile as it is, and wrap, include, Compile and Execute hand it on: *)
(* a *fs.PathError for the path that could not be opened.  A message is a   *)
(* sequence of words.                                                       *)

PathError(d, path) ==
    [Op |-> "open", Path |-> path.base,
     Err |-> IF path \in DOMAIN d THEN <<"permission", "denied">>
             ELSE <<"no", "such", "file", "or", "directory">>]

\* (*PathError).Error(): Op + " " + Path + ": " + Err.Error()
ErrorString(e) == <<e.Op, e.Path>> \o e.Err

\* strings.Contains on sequences of words
Contains(msg, sub) ==
    \E i \in 0..Len(msg) :
        i + Len(sub) <= Len(msg) /\ SubSeq(msg, i + 1, i + Len(sub)) = sub

\* the error value the call behind the observation has returned
ErrorOf(obs) ==
    LET failed == CHOOSE e \in FailedReads(obs.log) : TRUE
    IN PathError(disk, failed.p)

CouldNotBeRead == <<"could", "not", "be", "read">>

\* C28: when Execute fails because the main template, a wrapper file or an
\* included file is missing or cannot be read, the message of the error it
\* returns contains "could not be read".
C28_MessageSaysCouldNotBeRead ==
    [][(CallEnds /\ last'.op = "Execute" /\ last'.res = "err")
          => /\ FailedReads(last'.log) # {}
             /\ Contains(ErrorString(ErrorOf(last')), CouldNotBeRead)]_vars

---------------------------------------------------------------------------
(* Files that include one another in a cycle.                               *)

\* a includes b and b includes a
IncCycleTree ==
    { <<1, "m", <<Lit("x"), Include("a"), NL>> >>,
      <<1, "a", <<Lit("y"), Include("b")>> >>,
      <<1, "b", <<Include("a"), Lit("z")>> >> }

\* the wrapper file of m includes m; a is wrapped by a file that wraps itself
WrapIncCycleTree ==
    { <<1, "m", <<Wrapper("w"), NL, Lit("x")>> >>,
      <<1, "w", <<Lit("h"), Ph("content"), Include("m"), NL>> >>,
      <<1, "a", <<Wrapper("v"), NL, Lit("y")>> >>,
      <<1, "v", <<Wrapper("v"), NL, Lit("g"), Ph("content")>> >> }

CycleTrees == {TreeSelf, IncCycleTree, WrapIncCycleTree, WrapCycleTree}

InitCycle ==
    /\ InitInstance
    /\ Roots = [i \in 1..NRoots |-> i]
    /\ IncludeLimit \in Limits
    /\ CacheTemplates \in BOOLEAN
    /\ Stash = [x \in {Ph("t")} |-> StrVal(<<Lit("T")>>)]
    /\ disk \in {MkDisk(T) : T \in CycleTrees}
    /\ art = EmptyMap

CycleNames == {"m", "a"}

NextCycle ==
    \/ \E n \in CycleNames : CallCompile(n)
    \/ \E n \in CycleNames : ExecuteCompile(n)
    \/ ExecuteRender
    \/ ExecuteReturn
    \/ Background

SpecCycle == InitCycle /\ [][NextCycle]_vars

BaseNames == {p.base : p \in DOMAIN disk}

\* the files the include pass reads for the file f: the targets of the
\* include directives of f and of the wrapper file that wrap puts around it
Targets(f) ==
    LET t == Chomp(Source(f))
        own == {t[i].v : i \in {j \in 1..Len(t) : t[j].k = "inc"}}
        w == IF WrapperAt(t) = {} THEN <<>>
             ELSE IF ~Exists(t[FirstIn(WrapperAt(t))].v) THEN <<>>
             ELSE Source(t[FirstIn(WrapperAt(t))].v)
    IN own \cup {w[i].v : i \in {j \in 1..Len(w) : w[j].k = "inc"}}

RECURSIVE ReachIn(_, _)
\* the files reached from the files S in at most k steps of Targets
ReachIn(S, k) ==
    IF k = 0 THEN S
    ELSE ReachIn(S \cup UNION {Targets(f) : f \in {g \in S : Exists(g)}}, k - 1)

Reach(S) == ReachIn(S, Cardinality(BaseNames))

\* the resolution of the file n comes to a file that includes itself, directly
\* or through other files
Cyclic(n) ==
    \E f \in Reach({n}) : Exists(f) /\ f \in Reach(Targets(f))

\* a stack with d calls of include on top of Compile
IncludeStack(d) == [i \in 1..d |-> "include"] \o <<"Compile", "caller">>

\* with IncludeLimit + 1 calls of include on the stack, include stops at its
\* first directive, before it reads a file or calls itself
C29_GuardStopsRecursion ==
    \A n \in BaseNames :
        LET r == include(Self, <<Lit("x"), Include(n)>>, IncludeStack(IncludeLimit + 1))
        IN r.res = "panic" /\ r.s.log = {} /\ r.s.files = files

\* every call ends, and a cycle ends it with the panic
C29_EndsStep ==
    (CallEnds /\ last'.op \in {"Compile", "Execute"}) =>
        /\ last'.res \in {"ok", "err", "panic"}
        /\ last'.res = "ok" => ~Cyclic(last'.name.base)
        /\ Cyclic(last'.name.base) => last'.res = "panic"

\* C29: resolution ends for every IncludeLimit >= 1 and every set of files,
\* with files that include themselves, include cycles and wrapper cycles:
\* Compile returns text, returns an error or panics on the include limit.
\* include never has more than IncludeLimit + 1 calls of itself on the
\* stack, and a wrapper cycle costs no recursion at all.
C29_ResolutionEnds == []C29_GuardStopsRecursion /\ [][C29_EndsStep]_vars

\* a and b include each other: Compile("m") has ended with the panic after
\* reading each file once
C29_Witness ==
    /\ disk = MkDisk(IncCycleTree)
    /\ last.op = "Compile" /\ last.name = Rel("m") /\ last.res = "panic"
    /\ Cyclic("m")
    /\ IncludeLimit = MaxLimit
    /\ DOMAIN files = {FP(1, "m"), FP(1, "a"), FP(1, "b")}

---------------------------------------------------------------------------
(* The configuration of an instance while it is in use. *)

\* MustLoadFile, line 278-284: LoadFile, and a panic on its error
MustLoadFile(s, path0) ==
    Let(LoadFile(s, path0), LAMBDA r :
        IF r.res # "ok" THEN Res(r.s, <<>>, "panic") ELSE r)

\* the caller invokes t.MustLoadFile(n)
CallMustLoadFile(n) ==
    /\ pc = "idle"
    /\ LET r == MustLoadFile(Self, Rel(n))
       IN /\ Commit(r.s)
          /\ last' = Obs("MustLoadFile", Rel(n), toFullPath(disk, Roots, Rel(n)),
                         r.res, r.text, r.s.log, FALSE)
    /\ UNCHANGED <<pc, cur>>

\* what MergeStash is called with
FrameData == { [x \in {Ph("t")} |-> StrVal(<<Lit("U")>>)] }

\* the roots in any order, the include limit of New or one set by the caller
InitFrame ==
    /\ InitInstance
    /\ Roots \in {rs \in RootLists : Len(rs) = NRoots}
    /\ IncludeLimit \in {1, DefaultIncludeLimit}
    /\ CacheTemplates = TRUE
    /\ Stash = [x \in {Ph("t")} |-> StrVal(<<Lit("T")>>)]
    /\ disk \in ThemeDisks
    /\ art = EmptyMap

\* Execute is called with the name found in the last root, the other calls
\* with the name found in any
FrameNames == {"b"}

NextFrame ==
    \/ \E n \in LoadNames : CallCompile(n)
    \/ \E n \in LoadNames : CallLoadFile(n)
    \/ \E n \in LoadNames : CallMustLoadFile(n)
    \/ \E n \in FrameNames : ExecuteCompile(n)
    \/ ExecuteRender
    \/ ExecuteReturn
    \/ Background
    \/ \E data \in FrameData : MergeStash(data)

SpecFrame == InitFrame /\ [][NextFrame]_vars

FrameOps == {"Compile", "Execute", "LoadFile", "MustLoadFile", "MergeStash"}

\* the file the name of the finished call stands for under the roots and
\* files of the moment
ResolvedAfter == toFullPath(disk', Roots', last'.name)

C30_FrameStep ==
    /\ Roots' = Roots
    /\ IncludeLimit' = IncludeLimit
    /\ (CallEnds /\ last'.op \in FrameOps \ {"MergeStash"})
          => /\ last'.path = ResolvedAfter
             /\ ResolvedAfter = toFullPath(disk, Roots, last'.name)

\* C30: no step of Compile, Execute, LoadFile, MustLoadFile or MergeStash
\* (the write goroutine included) changes the roots or the include limit, and
\* the file a finished call worked on is the one its name stands for under
\* the roots as they were before the call and as they are after it.
C30_ConfigurationReadOnly == [][C30_FrameStep]_vars

\* the roots are in the order given, `b` was found in the last of them, and
\* Execute wrote it after a MergeStash changed the Stash
C30_Witness ==
    /\ last.op = "Execute"
    /\ last.res = "ok"
    /\ last.name = Rel("b")
    /\ last.path = FP(NRoots, "b")
    /\ Len(Roots) = NRoots
    /\ \A i \in DOMAIN Roots : Roots[i] = i
    /\ Stash[Ph("t")] = StrVal(<<Lit("U")>>)
    /\ FP(NRoots, "b") \in DOMAIN files

---------------------------------------------------------------------------
(* The write goroutine and the rendering of Execute. *)

PendingPaths == {pending[i].path : i \in DOMAIN pending}

\* what a write goroutine can have left of the artifact of p: nothing yet,
\* the truncated file, or one of the texts handed to a goroutine
Stages(p) ==
    {<<>>} \cup {pending[i].text : i \in {j \in DOMAIN pending : pending[j].path = p}}

\* every state of the artifacts the goroutines started so far can produce
WriterArts ==
    UNION { { [x \in (DOMAIN art) \cup T |-> IF x \in T THEN c[x] ELSE art[x]] :
                c \in {f \in [T -> UNION {Stages(p) : p \in T}] :
                          \A p \in T : f[p] \in Stages(p)} } :
            T \in SUBSET PendingPaths }

\* line 215 with the artifacts as they are and with the artifacts a
RenderWith(a) == ftExec([Self EXCEPT !.log = {}, !.art = a], cur.text)

\* a step of a write goroutine
WriterStep ==
    \/ Len(pending') < Len(pending)
    \/ /\ Len(pending') = Len(pending)
       /\ \E i \in DOMAIN pending : pending'[i].phase # pending[i].phase

C31_WriterTouchesArtifactOnly ==
    WriterStep => UNCHANGED <<files, compiled, Stash, out, disk, pc, cur, last>>

C31_RenderIgnoresArtifact ==
    pc = "render" =>
        /\ \A p \in PendingPaths :
              /\ Ev("ReadArtifact", p) \notin RenderWith(art).s.log
              /\ Ev("ReadArtifactFailed", p) \notin RenderWith(art).s.log
        /\ \A a \in WriterArts :
              /\ RenderWith(a).res = RenderWith(art).res
              /\ RenderWith(a).s.out = RenderWith(art).s.out
              /\ RenderWith(a).s.compiled = RenderWith(art).s.compiled
              /\ RenderWith(a).s.stash = RenderWith(art).s.stash

\* C31: a step of a write goroutine changes the artifact, the wait-group
\* counter and nothing else of the instance; the rendering of Execute reads
\* no artifact a write is pending for, and whatever the pending writes have
\* done to the artifacts it writes the same output, ends in the same way and
\* leaves the same compiled entries and Stash.
C31_WriteAndRenderApart ==
    []C31_RenderIgnoresArtifact /\ [][C31_WriterTouchesArtifactOnly]_vars

\* Execute has rendered `m` with a TagFunc that compiles `m` again while the
\* artifact of `m` is open and still empty
C31_Witness ==
    /\ pc = "wait"
    /\ cur.res = "ok"
    /\ cur.name = Rel("m")
    /\ Stash[Ph("t")] = CompileFunc("m")
    /\ out # <<>>
    /\ \E i \in DOMAIN pending : pending[i].path = cur.path /\ pending[i].phase = "write"
    /\ cur.path \in DOMAIN art
    /\ art[cur.path] = <<>>

---------------------------------------------------------------------------
(* What a Compile that returns an error leaves behind. *)

\* a step in which Compile, called by the caller or by Execute at line 211,
\* returns an error
CompileFails ==
    /\ CallEnds
    /\ pc = "idle"
    /\ last'.op \in {"Compile", "Execute"}
    /\ last'.res = "err"

\* every entry of f is in g as it was
Extends(g, f) == \A x \in DOMAIN f : x \in DOMAIN g /\ g[x] = f[x]

C32_FailStep ==
    CompileFails =>
        /\ compiled' = compiled
        /\ art' = art
        /\ wg' = wg
        /\ pending' = pending
        /\ Extends(files', files)

\* C32: when Compile returns an error, t.compiled, the artifacts and the
\* wait-group counter are as they were before the call and no write
\* goroutine has been started; t.files has every entry it had and may have
\* more.
C32_FailedCompileKeepsCache == [][C32_FailStep]_vars

\* Compile of `m` failed on the missing wrapper of the included `b`, after
\* reading `m` and `b`, and the entry and the pending write of an earlier
\* Compile of `a` are in place
C32_Witness ==
    /\ last.op = "Compile"
    /\ last.res = "err"
    /\ last.name = Rel("m")
    /\ disk = MkDisk(ErrInclWrap)
    /\ FP(1, "m") \in DOMAIN files
    /\ FP(1, "b") \in DOMAIN files
    /\ DOMAIN compiled = {FP(1, "a")}
    /\ wg = 1
    /\ Len(pending) = 1

---------------------------------------------------------------------------
(* Two instances made with the same roots.  The maps, the Stash and the     *)
(* wait-group of the variables are those of the first instance; of the      *)
(* second one only its write goroutines are kept, as entries of pending     *)
(* with a phase of their own.  Both use the same files and artifacts.       *)

\* the second instance as New leaves it
Other == [Self EXCEPT !.files = EmptyMap, !.compiled = EmptyMap, !.wg = 0,
                      !.pending = <<>>, !.out = <<>>]

\* the second instance calls Compile(n), line 157-180; its goroutines start
OtherCompile(n) ==
    /\ pc = "idle"
    /\ LET r == Compile(Other, Rel(n), <<"caller">>)
       IN /\ r.res = "ok"
          /\ r.s.pending # <<>>
          /\ Len(pending) + Len(r.s.pending) <= MaxPending
          /\ pending' = pending \o [i \in DOMAIN r.s.pending |->
                                       [r.s.pending[i] EXCEPT !.phase = "other go"]]
    /\ UNCHANGED <<Roots, IncludeLimit, CacheTemplates, Stash, files, compiled, wg,
                   disk, art, pc, cur, out, last>>

\* storeCompiled of the second instance, line 198: os.WriteFile creates or
\* truncates the artifact ...
OtherStoreOpen(i) ==
    /\ i \in 1..Len(pending)
    /\ pending[i].phase = "other go"
    /\ pending' = [pending EXCEPT ![i].phase = "other write"]
    /\ art' = Put(art, pending[i].path, <<>>)
    /\ UNCHANGED <<Roots, IncludeLimit, CacheTemplates, Stash, files, compiled, wg,
                   disk, pc, cur, out, last>>

\* ... then writes the text; the deferred Done is on the second instance's
\* wait-group
OtherStoreDone(i) ==
    /\ i \in 1..Len(pending)
    /\ pending[i].phase = "other write"
    /\ pending' = RemoveAt(pending, i)
    /\ art' = Put(art, pending[i].path, pending[i].text)
    /\ UNCHANGED <<Roots, IncludeLimit, CacheTemplates, Stash, files, compiled, wg,
                   disk, pc, cur, out, last>>

InitShare ==
    /\ InitInstance
    /\ Roots = [i \in 1..NRoots |-> i]
    /\ IncludeLimit = DefaultIncludeLimit
    /\ CacheTemplates = TRUE
    /\ Stash = [x \in {Ph("t")} |-> StrVal(<<Lit("T")>>)]
    /\ disk = MkDisk(TreeBook)
    /\ art = EmptyMap

ShareNames == {"m", "b"}

NextShare ==
    \/ \E n \in ShareNames : CallCompile(n)
    \/ \E n \in ShareNames : OtherCompile(n)
    \/ Background
    \/ \E i \in 1..MaxPending : OtherStoreOpen(i)
    \/ \E i \in 1..MaxPending : OtherStoreDone(i)

SpecShare == InitShare /\ [][NextShare]_vars

\* the text Compile makes of the source files for the name n
FromSource(n) == Compile([Other EXCEPT !.art = EmptyMap], n, <<"caller">>).text

\* a step in which a Compile of the caller returns the text of an artifact
ReturnsArtifact ==
    /\ CallEnds
    /\ last'.op = "Compile"
    /\ last'.res = "ok"
    /\ Ev("ReadArtifact", last'.path) \in last'.log

\* C33: the text Compile returns from an artifact is the whole text that
\* was made for that path, also while a write goroutine of this or of
\* another instance is still writing the artifact.
C33_ArtifactComplete == [][ReturnsArtifact => last'.text = FromSource(last'.name)]_vars

---------------------------------------------------------------------------
(* The wait-group counter.  Every goroutine that was started runs and       *)
(* every step it can take is taken in the end; so is the return of          *)
(* t.wg.Wait() once the counter is 0.                                       *)

WriterRuns ==
    \E i \in 1..MaxPending :
        storeCompiledOpen(i) \/ storeCompiledDone(i) \/ storeCompiledPanic(i)

SpecWriteFair ==
    /\ InitWrite
    /\ [][NextWrite]_vars
    /\ WF_vars(WriterRuns)
    /\ WF_vars(ExecuteReturn)

\* the counter is the number of goroutines started and not ended
C34_Counts ==
    /\ wg >= 0
    /\ ~Crashed => wg = Len(pending)

\* one more for every goroutine started, one less when a goroutine ends, by
\* a write that is done or by one that failed
C34_CountStep ==
    /\ Len(pending') > Len(pending) => wg' - wg = Len(pending') - Len(pending)
    /\ (Len(pending') < Len(pending) \/ (Crashed' /\ ~Crashed)) => wg' = wg - 1
    /\ (wg' # wg) => (Len(pending') # Len(pending))

C34_WaitEnds == (pc = "wait") ~> (pc = "idle" \/ Crashed)

---------------------------------------------------------------------------
(* An artifact whose source file is gone.  The artifact of `a` is left by   *)
(* an earlier run or written by this one; the file `a` is removed while     *)
(* the instance runs.  Compile is called with the name in every form.       *)

InitOrphan ==
    /\ InitInstance
    /\ Roots = [i \in 1..NRoots |-> i]
    /\ IncludeLimit = DefaultIncludeLimit
    /\ CacheTemplates = TRUE
    /\ Stash = [x \in {Ph("t")} |-> StrVal(<<Lit("T")>>)]
    /\ disk \in {MkDisk(LifeTree(va)) : va \in VersionsA}
    /\ art \in {EmptyMap, [x \in {FP(1, "a")} |-> OldArtifact]}

NextOrphan ==
    \/ \E n \in LifeNames : \E p \in Forms(n) : CallCompilePath(p)
    \/ \E n \in LifeNames : RemoveSource(n)
    \/ Background

SpecOrphan == InitOrphan /\ [][NextOrphan]_vars

\* no root has a readable file for the name of path p
SourceGone(p) ==
    \A i \in DOMAIN Roots : ~isReadable(disk, FP(Roots[i], p.base))

\* the artifacts left for the name of path p
Orphans(p) == {FP(Roots[i], p.base) : i \in DOMAIN Roots} \cap DOMAIN art

C35_OrphanStep ==
    ( /\ CallEnds
      /\ last'.op = "Compile"
      /\ SourceGone(last'.name)
      /\ Orphans(last'.name) # {}
      /\ Orphans(last'.name) \cap DOMAIN compiled = {} )
    => /\ last'.res = "err"
       /\ \A q \in Orphans(last'.name) : Ev("ReadArtifact", q) \notin last'.log

\* C35: when no root has a readable source file for a name, an artifact of
\* that name is on disk and t.compiled has no entry for it, Compile of the
\* name does not read the artifact and returns a read error.
C35_ArtifactNeedsSource == [][C35_OrphanStep]_vars

---------------------------------------------------------------------------
(* Wrapper files that hold include directives. *)

\* `m` is wrapped into `w`; `w` includes `b` before the content and `a`
\* after it; `b` begins the chain b -> c -> d
WrapIncMain ==
    { <<1, "m", <<Wrapper("w"), NL, Lit("x"), Include("a"), NL>> >>,
      <<1, "w", <<Lit("h"), Include("b"), Ph("content"), Include("a"), NL>> >>,
      <<1, "a", <<Lit("y"), Ph("t"), NL>> >>,
      <<1, "b", <<Lit("z"), Include("c")>> >>,
      <<1, "c", <<Lit("c"), Include("d")>> >>,
      <<1, "d", <<Lit("d"), NL>> >> }

\* `m` includes `a`, which is wrapped into `w`; `w` includes `b`
WrapIncPartial ==
    { <<1, "m", <<Lit("x"), Include("a"), NL>> >>,
      <<1, "a", <<Wrapper("w"), NL, Lit("y")>> >>,
      <<1, "w", <<Ph("content"), Include("b"), NL>> >>,
      <<1, "b", <<Lit("z"), Include("c")>> >>,
      <<1, "c", <<Lit("c"), NL>> >> }

WrapIncTrees == {WrapIncMain, WrapIncPartial}

InitWrapInc ==
    /\ InitInstance
    /\ Roots = <<1>>
    /\ IncludeLimit \in Limits
    /\ CacheTemplates \in BOOLEAN
    /\ Stash = [x \in {Ph("t")} |-> StrVal(<<Lit("T")>>)]
    /\ disk \in {MkDisk(T) : T \in WrapIncTrees}
    /\ art = EmptyMap

WrapIncNames == {"m", "a", "b"}

NextWrapInc ==
    \/ \E n \in WrapIncNames : CallCompile(n)
    \/ \E n \in WrapIncNames : ExecuteCompile(n)
    \/ ExecuteRender
    \/ ExecuteReturn
    \/ Background

SpecWrapInc == InitWrapInc /\ [][NextWrapInc]_vars

\* the file n has a wrapper directive whose file exists and holds an
\* include directive
WrappedWithIncludes(n) ==
    /\ Exists(n)
    /\ WrapperAt(Chomp(Source(n))) # {}
    /\ Let(Chomp(Source(n))[FirstIn(WrapperAt(Chomp(Source(n))))].v, LAMBDA w :
           /\ Exists(w)
           /\ \E i \in DOMAIN Source(w) : Source(w)[i].k = "inc")

\* the wrapped text of n with every include directive, those of the wrapper
\* file too, expanded from depth 0
Expanded(n) == RefInclude(RefWrap(Chomp(Source(n))).text, 0)

C36_CompileStep ==
    (CallEnds /\ last'.op = "Compile" /\ WrappedWithIncludes(last'.name.base))
    => /\ last'.res = WrapOutcome(Source(last'.name.base), 0)
       /\ last'.res = "ok" =>
             /\ Expanded(last'.name.base).ok
             /\ last'.text = Expanded(last'.name.base).text
             /\ \A i \in DOMAIN last'.text : last'.text[i].k # "inc"

\* C36: Compile of a template that is wrapped into a file with include
\* directives ends as the expansion of the wrapped text from depth 0 ends
\* (a panic when an include directive is met at the depth of the limit, the
\* directives of the wrapper file counted like those of the template), and
\* when it returns a text, every include directive of the wrapper file is
\* replaced by its target's resolved content and none is left.
C36_WrapperIncludesResolved == [][C36_CompileStep]_vars

\* with the default limit `m` is compiled: the chain b -> c -> d that the
\* wrapper file begins is in the text, before the content
C36_Witness ==
    /\ last.op = "Compile"
    /\ last.res = "ok"
    /\ last.name = Rel("m")
    /\ disk = MkDisk(WrapIncMain)
    /\ IncludeLimit = DefaultIncludeLimit
    /\ last.text = <<Lit("h"), Lit("z"), Lit("c"), Lit("d"), Lit("x"), Lit("y"),
                     Ph("t"), Lit("y"), Ph("t")>>

---------------------------------------------------------------------------
(* The older package tmpls (one root) next to package gledki with one root. *)
(* The operators of tmpls work on an instance record of the same shape;     *)
(* its root is roots[1].                                                    *)

RECURSIVE TrimLeftNL(_)
TrimLeftNL(t) == IF t # <<>> /\ t[1].k = "nl" THEN TrimLeftNL(Tail(t)) ELSE t

RECURSIVE TrimRightNL(_)
TrimRightNL(t) ==
    IF t # <<>> /\ t[Len(t)].k = "nl" THEN TrimRightNL(SubSeq(t, 1, Len(t) - 1)) ELSE t

\* strings.Trim(text, "\n"): every line break at the start and at the end
TrimNL(t) == TrimRightNL(TrimLeftNL(t))

RECURSIVE StripWrappers(_)
\* reWrapper.ReplaceAllString(text, ""): every wrapper directive goes, each
\* with the line break before it and the line break after it, if any
StripWrappers(t) ==
    IF t = <<>> THEN <<>>
    ELSE IF Len(t) >= 2 /\ t[1].k = "nl" /\ IsWrapper(t[2])
    THEN StripWrappers(SubSeq(t, IF Len(t) >= 3 /\ t[3].k = "nl" THEN 4 ELSE 3, Len(t)))
    ELSE IF IsWrapper(t[1])
    THEN StripWrappers(SubSeq(t, IF Len(t) >= 2 /\ t[2].k = "nl" THEN 3 ELSE 2, Len(t)))
    ELSE <<t[1]>> \o StripWrappers(Tail(t))

\* strings.Replace(wrapper, "${content}", text, 1): the first content
\* placeholder only
ReplaceFirstContent(w, text) ==
    IF \E i \in DOMAIN w : w[i] = Ph("content")
    THEN Let(CHOOSE i \in DOMAIN w :
                w[i] = Ph("content") /\ \A j \in 1..(i - 1) : w[j] # Ph("content"),
             LAMBDA i : SubSeq(w, 1, i - 1) \o text \o SubSeq(w, i + 1, Len(w)))
    ELSE w

\* tmpls.toFullPath: extension, then the root, whether the file is there or not
tmplsToFullPath(root, path0) ==
    Let(IF HasSuffixExt(path0) THEN path0 ELSE [path0 EXCEPT !.ext = TRUE], LAMBDA path :
        IF HasPrefix(path, root) THEN path ELSE Join(root, path))

\* tmpls.LoadFile
tmplsLoadFile(s, path0) ==
    Let(tmplsToFullPath(s.roots[1], path0), LAMBDA path :
        IF path \in DOMAIN s.files /\ Len(s.files[path]) > 0
        THEN Res(s, s.files[path], "ok")
        ELSE readFile(s, path))

\* tmpls.wrap
tmplsWrap(s, text) ==
    Let(FirstWrapper(text), LAMBDA i :
        IF i = 0 THEN Res(s, text, "ok")
        ELSE Let(tmplsLoadFile(s, Rel(text[i].v)), LAMBDA lf :
            IF lf.res # "ok" THEN Res(lf.s, text, "err")
            ELSE Res(lf.s, ReplaceFirstContent(lf.text, StripWrappers(TrimNL(text))),
                     "ok")))

RECURSIVE tmplsInclude(_, _, _)
RECURSIVE tmplsIncludeMatches(_, _, _, _)

\* the loop `for _, m := range matches` of tmpls.include
tmplsIncludeMatches(s, matches, data, stack) ==
    IF matches = <<>> THEN IRes(s, data, "ok")
    ELSE IF detectInludeRecursionLimit(s.limit, stack) THEN IRes(s, data, "panic")
    ELSE Let(tmplsLoadFile(s, Rel(Head(matches).v)), LAMBDA lf :
         IF lf.res # "ok" THEN IRes(lf.s, data, "err")
         ELSE Let(tmplsWrap(lf.s, TrimNL(lf.text)), LAMBDA wr :
              IF wr.res # "ok" THEN IRes(wr.s, data, "err")
              ELSE Let(tmplsInclude(wr.s, wr.text, <<"include">> \o stack), LAMBDA inc :
                   IF inc.res # "ok" THEN IRes(inc.s, data, inc.res)
                   ELSE tmplsIncludeMatches(inc.s, Tail(matches),
                                            Put(data, Head(matches), inc.text), stack))))

\* tmpls.include
tmplsInclude(s, text, stack) ==
    Let(SelectSeq(text, IsInclude), LAMBDA matches :
        IF Len(matches) = 0 THEN Res(s, text, "ok")
        ELSE Let(tmplsIncludeMatches(s, matches, EmptyMap, stack), LAMBDA r :
             IF r.res # "ok" THEN Res(r.s, text, r.res)
             ELSE Res(r.s, FtExecStringStd(text, r.stash), "ok")))

\* the key fullPath + "c" of t.compiled
Suffixed(fullPath) == [compiledOf |-> fullPath]

\* tmpls.loadCompiled: the text read from the artifact is kept under the
\* artifact's name
tmplsLoadCompiled(s, fullPath) ==
    IF fullPath \in DOMAIN s.compiled THEN Res(s, s.compiled[fullPath], "ok")
    ELSE IF fullPath \notin DOMAIN s.art
    THEN Res(Logged(s, "ReadArtifactFailed", fullPath), <<>>, "err")
    ELSE Res([Logged(s, "ReadArtifact", fullPath) EXCEPT
                 !.compiled = Put(s.compiled, Suffixed(fullPath), s.art[fullPath])],
             s.art[fullPath], "ok")

\* tmpls.Compile
tmplsCompile(s, path0, stack) ==
    Let(tmplsToFullPath(s.roots[1], path0), LAMBDA path :
    Let(tmplsLoadCompiled(s, path), LAMBDA lc :
        IF lc.res = "ok" THEN CRes(lc.s, lc.text, "ok", path)
        ELSE Let(tmplsLoadFile(lc.s, path), LAMBDA lf :
             IF lf.res # "ok" THEN CRes(lf.s, <<>>, "err", path)
             ELSE Let(tmplsWrap(lf.s, lf.text), LAMBDA wr :
                  IF wr.res # "ok" THEN CRes(wr.s, wr.text, "err", path)
                  ELSE Let(tmplsInclude(wr.s, wr.text, <<"include", "Compile">> \o stack),
                           LAMBDA inc :
                       IF inc.res # "ok" THEN CRes(inc.s, inc.text, inc.res, path)
                       ELSE CRes([inc.s EXCEPT
                                     !.compiled = Put(@, path, inc.text),
                                     !.wg = @ + 1,
                                     !.pending = Append(@, [path |-> path, text |-> inc.text,
                                                            phase |-> "go"])],
                                 inc.text, "ok", path))))))

\* an instance of tmpls as its New leaves it, on a copy of the root's
\* template files
Tmpls == [Other EXCEPT !.art = EmptyMap]

\* the caller invokes Compile(n) of the gledki instance and of a tmpls
\* instance; what tmpls returned is kept in arg
CallCompileBoth(n) ==
    /\ pc = "idle"
    /\ LET r == Compile(Self, Rel(n), <<"caller">>)
           rt == tmplsCompile(Tmpls, Rel(n), <<"caller">>)
       IN /\ Len(r.s.pending) <= MaxPending
          /\ Commit(r.s)
          /\ last' = [Obs("Compile", Rel(n), r.path, r.res, r.text, r.s.log, FALSE)
                         EXCEPT !.arg = [res |-> rt.res, text |-> rt.text],
                                !.prev = <<"", NoPath, "">>]
    /\ UNCHANGED <<pc, cur>>

TwinA == { <<Lit("y"), Ph("u")>>,
           <<Lit("y"), Ph("u"), NL>>,
           <<Wrapper("w"), NL, Lit("y"), Include("b"), Ph("t")>>,
           <<Lit("x"), NL, Wrapper("w"), NL, Lit("y")>>,
           <<Wrapper("w"), Wrapper("v"), Lit("y")>> }
TwinB == { <<Lit("z")>>,
           <<NL, Lit("z"), NL>>,
           <<Lit("z"), Include("a")>>,
           <<Wrapper("v"), NL, NL, Lit("z")>> }
TwinW == { <<Lit("h"), Ph("content"), Ph("t")>>,
           <<Lit("h"), Ph("content"), Ph("content")>>,
           <<Ph("content"), Include("b")>>,
           <<Lit("h"), Ph("content"), NL>> }

\* every choice of a content for a, b and w; b may be missing, v is not there
TwinTrees ==
    { {<<1, "a", fa>>, <<1, "w", fw>>} \cup tb :
        fa \in TwinA, fw \in TwinW,
        tb \in {{}} \cup {{<<1, "b", fb>>} : fb \in TwinB} }

InitTwin ==
    /\ InitInstance
    /\ Roots = <<1>>
    /\ IncludeLimit \in {1, DefaultIncludeLimit}
    /\ CacheTemplates = TRUE
    /\ Stash = EmptyMap
    /\ disk \in {MkDisk(T) : T \in TwinTrees}
    /\ art = EmptyMap

TwinNames == {"a", "b"}

NextTwin ==
    \/ \E n \in TwinNames : CallCompileBoth(n)
    \/ Background

SpecTwin == InitTwin /\ [][NextTwin]_vars

\* the two variants end the call in the same way, with the same text
SameOutcome ==
    last.op = "Compile" =>
        /\ last.res = last.arg.res
        /\ last.res = "ok" => last.text = last.arg.text

\* a file that neither begins nor ends with a line break, with at most one
\* wrapper directive, not directly after a line break, and at most one
\* content placeholder
Plain(t) ==
    /\ t # <<>> => (t[1].k # "nl" /\ t[Len(t)].k # "nl")
    /\ Cardinality({i \in DOMAIN t : IsWrapper(t[i])}) <= 1
    /\ \A i \in DOMAIN t : (IsWrapper(t[i]) /\ i > 1) => t[i - 1].k # "nl"
    /\ Cardinality({i \in DOMAIN t : t[i] = Ph("content")}) <= 1

====
